---- MODULE Spec2Model ----
(***************************************************************************)
(* Verification model of the stock-analyzer backend (tricalas/stock-       *)
(* analyzer): the Task Runner (launch / cancel / restart / retry-failed),  *)
(* the collection and analysis drivers that create and finalize Task rows, *)
(* and the Freshness Oracle.                                               *)
(*                                                                         *)
(* Dates are day numbers; the weekday of day d is d % 7 with 0 = Monday,   *)
(* as date.weekday() numbers them.  A NULL column / Python None is NULL.   *)
(***************************************************************************)
EXTENDS Integers, Sequences, FiniteSets, TLC

\* ------------------------------------------------------------------ bounds

\* number of Stock rows in the registry
NumStocks == 2
\* number of task ids (uuid4 values) the entry points can hand out
MaxTasks == 2
\* number of exceptions (DB errors, soft time limits) injected in one behaviour
MaxFaults == 1
\* jobs launched by collect-history, signals refresh and the MA analyzer's
\* caller in one behaviour; restart and retry-failed add theirs
MaxLaunches == 1
\* driver functions that execute at the same time (worker concurrency)
MaxRunning == 1
\* stocks whose is_active flag is cleared in one behaviour
MaxDeactivated == 1
\* the stored dates of the oracle's input range over the last OracleSpan days
OracleSpan == 3

\* ------------------------------------------------------- program constants

\* min_records: int = 60
MIN_RECORDS == 60
\* func.count(StockPriceHistory.id) >= 60 : eligibility for trendline analysis
SIGNAL_MIN_HISTORY == 60
\* func.count(StockPriceHistory.id) >= 200 : eligibility for MA analysis
MA_MIN_HISTORY == 200
\* now.hour < 6 : before the US market close in Korean time
CLOSE_HOUR == 6

NULL == -1

Stocks == 1..NumStocks
TaskIds == 1..MaxTasks

\* the day the model runs on (a Wednesday), late enough for 200 stored days
Today == 212

VARIABLES
    is_active,              \* Stock.is_active
    tagged,                 \* stocks with a StockTagAssignment row
    history_records_count,  \* Stock.history_records_count (NULL or a number)
    price_dates,            \* dates of the StockPriceHistory rows of each stock
    today,                  \* date.today()
    hour,                   \* datetime.now().hour
    oracle_out,             \* last answer of the Freshness Oracle
    tasks,                  \* task_progress table: task_id -> row
    logs,                   \* history_collection_logs table: (task_id, stock_id) -> row
    jobs,                   \* submitted driver functions: task_id -> position and locals
    next_id,                \* the next fresh uuid4
    faults,                 \* exceptions injected so far
    cancel_mark,            \* units a job had completed when cancel_task cancelled it
    kis_client,             \* KISHistoryCrawler.kis_client: "client", or NULL (no API keys)
    price_rows,             \* stock_price_history rows of one stock: date -> rows
    ma90_price,             \* Stock.ma90_price of that stock (NULL or a mean)
    history_updated_at,     \* stocks.history_updated_at: the collection (or day) that set it
    writers,                \* sessions that run collect_history_for_stock on it
    n_collect,              \* collections started so far
    access_token,           \* KISClient.access_token is set
    token_expired_at,       \* KISClient.token_expired_at (NULL or a minute)
    now,                    \* datetime.now(), in minutes
    sent,                   \* the last OHLCV request the client has sent
    unit_result,            \* the last result of collect_history_for_stock
    cache_file,             \* .kis_token_cache.json: cache key -> entry
    clients,                \* KISClient instances, one per process
    token_requests,         \* requests the token endpoint has received
    signals,                \* stock_signals rows of one stock
    analysts,               \* sessions that run _analyze_stock on it
    bars,                   \* its latest StockPriceHistory rows, oldest first
    n_analyses,             \* analysis runs started so far
    signal_analyzed_at,     \* stocks.signal_analyzed_at, by stock
    df,                     \* the DataFrame given to the trendline functions
    lower_highs,            \* what find_lower_highs returned for its swing highs
    buy_signals             \* the buy_signal column computed for it

stock_vars == <<is_active, tagged, history_records_count, price_dates>>
clock_vars == <<today, hour>>
task_vars == <<tasks, logs, jobs, next_id, faults, cancel_mark>>
\* Stock.ma90_price before any mean was stored (None)
NoMean == [sum |-> 0, len |-> 0]

\* no request has left the client
NoRequest ==
    [at |-> NULL, bearer |-> FALSE, expiry |-> NULL, answer |-> "", excd |-> ""]

\* collect_history_for_stock has not returned yet
NoResult == [success |-> FALSE, error |-> "", records_saved |-> 0]

ingest_vars == <<price_rows, ma90_price, history_updated_at, writers, n_collect>>
broker_vars == <<access_token, token_expired_at, now, sent, unit_result>>
\* what the Task Runner's steps leave alone
cache_vars == <<cache_file, clients, token_requests>>
\* the token cache file and the processes that share it
signal_vars == <<signals, analysts, bars, n_analyses, signal_analyzed_at>>
\* the input and the results of the trendline functions
trend_vars == <<df, lower_highs, buy_signals>>
shared_vars == <<cache_vars, signal_vars, trend_vars>>
side_vars == <<kis_client, ingest_vars, broker_vars, shared_vars>>
vars == <<is_active, tagged, history_records_count, price_dates, today, hour,
          oracle_out, tasks, logs, jobs, next_id, faults, cancel_mark,
          kis_client, price_rows, ma90_price, history_updated_at, writers,
          n_collect, access_token, token_expired_at, now, sent, unit_result,
          cache_file, clients, token_requests, signals, analysts, bars,
          n_analyses, signal_analyzed_at, df, lower_highs, buy_signals>>

\* ------------------------------------------------------- Freshness Oracle

Max(S) == CHOOSE x \in S : \A y \in S : y <= x

\* the roll-back without the Monday case: the day before, whatever day it is
LastTradingDay_NoMondayRule(d, h) ==
    LET weekday == d % 7 IN
    IF weekday = 5 THEN d - 1
    ELSE IF weekday = 6 THEN d - 2
    ELSE IF h < CLOSE_HOUR THEN d - 1
    ELSE d

\* KISHistoryCrawler._get_last_trading_day(): the latest day the market closed
_get_last_trading_day(d, h) ==
    LET weekday == d % 7 IN
    IF weekday = 5 THEN d - 1
    ELSE IF weekday = 6 THEN d - 2
    ELSE IF h < CLOSE_HOUR THEN (IF weekday = 0 THEN d - 3 ELSE d - 1)
    ELSE d

\* KISHistoryCrawler._should_collect_history, with the comparison reversed
ShouldCollect_StaleIsSkip(count_col, dates, d, h) ==
    LET count == IF count_col = NULL THEN 0 ELSE count_col IN
    IF count = 0 THEN [should_collect |-> TRUE, mode |-> "full", last_date |-> NULL]
    ELSE IF count < MIN_RECORDS
         THEN [should_collect |-> TRUE, mode |-> "full", last_date |-> NULL]
    ELSE IF dates # {}
         THEN LET last_date == Max(dates)
                  last_trading_day == _get_last_trading_day(d, h)
              IN  IF last_date <= last_trading_day
                  THEN [should_collect |-> FALSE, mode |-> "skip",
                        last_date |-> last_date]
                  ELSE [should_collect |-> TRUE, mode |-> "incremental",
                        last_date |-> last_date]
    ELSE [should_collect |-> TRUE, mode |-> "full", last_date |-> NULL]

\* KISHistoryCrawler._should_collect_history(stock, db): (should_collect, mode,
\* last_date) from the stock's history_records_count and its stored dates
_should_collect_history(count_col, dates, d, h) ==
    LET count == IF count_col = NULL THEN 0 ELSE count_col IN
    IF count = 0 THEN [should_collect |-> TRUE, mode |-> "full", last_date |-> NULL]
    ELSE IF count < MIN_RECORDS
         THEN [should_collect |-> TRUE, mode |-> "full", last_date |-> NULL]
    ELSE IF dates # {}
         THEN LET last_date == Max(dates)
                  last_trading_day == _get_last_trading_day(d, h)
              IN  IF last_date >= last_trading_day
                  THEN [should_collect |-> FALSE, mode |-> "skip",
                        last_date |-> last_date]
                  ELSE [should_collect |-> TRUE, mode |-> "incremental",
                        last_date |-> last_date]
    ELSE [should_collect |-> TRUE, mode |-> "full", last_date |-> NULL]

NoAnswer == [stock |-> 0]

\* one consultation of the oracle for stock s (kis_history_crawler.py:675)
ConsultOracle(s) ==
    /\ oracle_out' = [stock |-> s,
                      answer |-> _should_collect_history(
                                    history_records_count[s], price_dates[s],
                                    today, hour)]
    /\ UNCHANGED <<stock_vars, clock_vars, side_vars, task_vars>>

\* ------------------------------------------------------------ tables, jobs

Min(S) == CHOOSE x \in S : \A y \in S : x <= y

RECURSIVE SortedSeq(_)
\* the rows of a query as a list; id order stands for the query's order
SortedSeq(S) == IF S = {} THEN <<>>
                ELSE <<Min(S)>> \o SortedSeq(S \ {Min(S)})

\* no task_progress row with this task_id
NoRow == [status |-> "absent"]
\* no history_collection_logs row for this (task_id, stock_id)
NoLog == [status |-> "absent"]
\* no driver function submitted under this id
NoJob == [pc |-> "absent"]

\* TaskProgress(task_id, task_type, status="running", total_items=total,
\* current_item=0, ...): the row a driver inserts when it starts
NewTaskRow(task_type, total) ==
    [task_type |-> task_type, status |-> "running", total_items |-> total,
     current_item |-> 0, success_count |-> 0, failed_count |-> 0,
     message |-> "started", error_message |-> "", completed_at |-> FALSE]

\* HistoryCollectionLog(task_id, stock_id, status="running", records_saved=0)
NewLogRow == [status |-> "running", records_saved |-> 0, error_message |-> ""]

\* counters = {"processed": 0, "success": 0, ...}
Counters0 == [processed |-> 0, success |-> 0, failed |-> 0, skipped |-> 0,
              incremental |-> 0, full |-> 0, records |-> 0]

\* a driver function handed to a runner: "celery" (apply_async), "thread"
\* (threading.Thread) or "direct" (called by its owner); pc "queued" until it
\* starts; origin is the task id given to restart or retry-failed, or NULL
NewJob(kind, runner, mode, force_full, stock_ids, origin) ==
    [kind |-> kind, runner |-> runner, mode |-> mode, force_full |-> force_full,
     stock_ids |-> stock_ids, origin |-> origin,
     pc |-> "queued", stocks |-> <<>>, i |-> 1,
     counters |-> Counters0, collect_mode |-> "none",
     pending_success |-> 0, seen_status |-> "expired",
     tl_fired |-> FALSE, revoked |-> FALSE, raised |-> {}]

\* units of job t that have run to their end (the loop is at stock number i)
UnitsCompleted(t) == IF jobs[t] = NoJob THEN 0 ELSE jobs[t].i - 1

\* the job's code has stopped: returned, raised, or its process was terminated
Stopped(t) == jobs[t].pc \in {"done", "killed"}

\* the job's code is executing
Running(t) == jobs[t].pc \in {"loop", "collect", "analyze"}

\* a worker slot is free for a queued job
WorkerFree == Cardinality({u \in TaskIds : Running(u)}) < MaxRunning

\* the job's record once its function has returned or raised: the locals are gone
Finished(j) ==
    [j EXCEPT !.pc = "done", !.stocks = <<>>, !.counters = Counters0,
              !.collect_mode = "none",
              !.pending_success = 0, !.seen_status = "expired"]

\* the task ids that an entry point has returned to its caller
Returned == {t \in TaskIds : jobs[t] # NoJob /\ jobs[t].runner # "direct"}

\* GET /api/tasks/{task_id}
get_task_progress(t) == IF tasks[t] = NoRow THEN "NotFound" ELSE "Task"

\* --------------------------------------------------------- entry points

\* a fresh uuid4 for the job, which goes to its runner
Submit(job) ==
    /\ next_id <= MaxTasks
    /\ job.origin = NULL =>
          Cardinality({u \in TaskIds : jobs[u] # NoJob /\ jobs[u].origin = NULL})
              < MaxLaunches
    /\ jobs' = [jobs EXCEPT ![next_id] = job]
    /\ next_id' = next_id + 1

\* POST /api/stocks/collect-history: uuid4, collect_history_task.apply_async
collect_history_for_stocks(mode) ==
    /\ Submit(NewJob("collect", "celery", mode, FALSE, {}, NULL))
    /\ UNCHANGED <<stock_vars, clock_vars, side_vars, oracle_out, tasks, logs, faults,
                   cancel_mark>>

\* POST /api/signals/refresh: uuid4, threading.Thread(target=run_analysis)
refresh_signals(mode, force_full) ==
    /\ Submit(NewJob("signal", "thread", mode, force_full, {}, NULL))
    /\ UNCHANGED <<stock_vars, clock_vars, side_vars, oracle_out, tasks, logs, faults,
                   cancel_mark>>

\* ma_signal_analyzer.analyze_and_store_signals(force_full=...) called with
\* mode="all" and task_id=None, its defaults: the driver draws its own uuid4
ma_analyze_and_store_signals(force_full) ==
    /\ Submit(NewJob("ma", "direct", "all", force_full, {}, NULL))
    /\ UNCHANGED <<stock_vars, clock_vars, side_vars, oracle_out, tasks, logs, faults,
                   cancel_mark>>

\* what cancel_task answers: 404, success False "not running", success True
cancel_task_result(t) ==
    IF tasks[t] = NoRow THEN "NotFound"
    ELSE IF tasks[t].status # "running" THEN "not_running"
    ELSE "cancelled"

\* POST /api/tasks/{task_id}/cancel, without the status check
cancel_task_any_status(t) ==
    IF tasks[t] = NoRow
    THEN UNCHANGED vars
    ELSE /\ tasks' = [tasks EXCEPT ![t].status = "cancelled",
                                   ![t].message = "cancelled by user",
                                   ![t].completed_at = TRUE]
         /\ jobs' = IF jobs[t] # NoJob /\ jobs[t].runner = "celery" /\ ~Stopped(t)
                    THEN [jobs EXCEPT ![t].revoked = TRUE] ELSE jobs
         /\ cancel_mark' = [cancel_mark EXCEPT ![t] = UnitsCompleted(t)]
         /\ UNCHANGED <<stock_vars, clock_vars, side_vars, oracle_out, logs, next_id, faults>>

\* POST /api/tasks/{task_id}/cancel: 404 for an unknown id; success False
\* for a Task that is not running; for a running Task, revoke the Celery task
\* (terminate=True), then status = "cancelled", message, completed_at
cancel_task(t) ==
    IF cancel_task_result(t) # "cancelled"
    THEN UNCHANGED vars
    ELSE /\ tasks' = [tasks EXCEPT ![t].status = "cancelled",
                                   ![t].message = "cancelled by user",
                                   ![t].completed_at = TRUE]
         /\ jobs' = IF jobs[t] # NoJob /\ jobs[t].runner = "celery" /\ ~Stopped(t)
                    THEN [jobs EXCEPT ![t].revoked = TRUE] ELSE jobs
         /\ cancel_mark' = [cancel_mark EXCEPT ![t] = UnitsCompleted(t)]
         /\ UNCHANGED <<stock_vars, clock_vars, side_vars, oracle_out, logs, next_id, faults>>

\* what restart_task answers
restart_task_result(t) ==
    IF tasks[t] = NoRow THEN "NotFound"
    ELSE IF tasks[t].status = "running" THEN "still_running"
    ELSE IF tasks[t].task_type \in {"history_collection", "signal_analysis"}
         THEN "restarted"
    ELSE "unknown_task_type"

\* POST /api/tasks/{task_id}/restart: for a Task that is not running, a new
\* uuid4 and collect_history_task(days=100, mode="tagged") or
\* analyze_signals_task(mode="tagged", force_full=False); 404 for an unknown
\* id, success False for a running Task, HTTP 400 for any other task_type
restart_task(t) ==
    IF restart_task_result(t) # "restarted"
    THEN UNCHANGED vars
    ELSE /\ Submit(IF tasks[t].task_type = "history_collection"
                   THEN NewJob("collect", "celery", "tagged", FALSE, {}, t)
                   ELSE NewJob("signal", "celery", "tagged", FALSE, {}, t))
         /\ UNCHANGED <<stock_vars, clock_vars, side_vars, oracle_out, tasks, logs, faults,
                        cancel_mark>>

\* failed_logs of retry_failed_stocks: the stocks with a failed log row
FailedStocks(t) == {s \in Stocks : logs[<<t, s>>].status = "failed"}

\* active_stocks of retry_failed_stocks, without the is_active filter
RetryUniverse_AllFailed(t) == FailedStocks(t)

\* active_stocks of retry_failed_stocks
RetryUniverse(t) == {s \in FailedStocks(t) : is_active[s]}

\* what retry_failed_stocks answers
retry_failed_stocks_result(t) ==
    IF FailedStocks(t) = {} THEN "no_failed_stocks"
    ELSE IF RetryUniverse(t) = {} THEN "no_active_stocks"
    ELSE "retry_started"

\* POST /api/tasks/{task_id}/retry-failed: the active stocks with a failed
\* log row under task_id go to retry_failed_stocks_task under a new uuid4;
\* success False when there is no failed row or no active stock among them
retry_failed_stocks(t) ==
    IF retry_failed_stocks_result(t) # "retry_started"
    THEN UNCHANGED vars
    ELSE /\ Submit(NewJob("retry", "celery", "ids", FALSE, RetryUniverse(t), t))
         /\ UNCHANGED <<stock_vars, clock_vars, side_vars, oracle_out, tasks, logs, faults,
                        cancel_mark>>

\* Stock.is_active is cleared in the shared database (the upsert of
\* migrate_all_stocks.py writes is_active = EXCLUDED.is_active).  The drivers
\* read the flag only where a job starts, so the write is placed between job
\* steps.
Deactivate(s) ==
    /\ is_active[s]
    /\ Cardinality({x \in Stocks : ~is_active[x]}) < MaxDeactivated
    /\ \A u \in TaskIds : ~Running(u)
    /\ is_active' = [is_active EXCEPT ![s] = FALSE]
    /\ UNCHANGED <<tagged, history_records_count, price_dates, clock_vars, side_vars,
                   oracle_out, task_vars>>

\* ------------------------------------------------------ collection driver

\* the exceptions that can be raised into a step of job t: a database error,
\* or SoftTimeLimitExceeded (once, in a Celery task)
FaultKinds(t) ==
    {"none"} \cup
    (IF faults < MaxFaults
     THEN {"error"} \cup (IF jobs[t].runner = "celery" /\ ~jobs[t].tl_fired
                          THEN {"timelimit"} ELSE {})
     ELSE {})

Inject(f) == faults' = IF f = "none" THEN faults ELSE faults + 1

\* the job's locals after exception f was raised in it
Hit(j, f) == [j EXCEPT !.tl_fired = (@ \/ f = "timelimit")]

\* stocks of collect_history_for_all_stocks, collect_history_for_tagged_stocks
\* and retry_failed_stocks_task: the active ones
Universe(j) ==
    CASE j.kind = "retry" -> {s \in j.stock_ids : is_active[s]}
      [] j.kind = "collect" /\ j.mode = "tagged" -> {s \in tagged : is_active[s]}
      [] OTHER -> {s \in Stocks : is_active[s]}

\* "No tagged US stocks found" / "No active stocks found for retry": the task
\* function returns before _collect_history_for_stocks is called
ReturnsEarly(j) ==
    \/ j.kind = "retry" /\ Universe(j) = {}
    \/ j.kind = "collect" /\ j.mode = "tagged" /\ tagged = {}

\* _mark_task_failed(task_id, error_message): only a running row is changed
_mark_task_failed(row, error_message) ==
    IF row # NoRow /\ row.status = "running"
    THEN [row EXCEPT !.status = "failed", !.error_message = error_message,
                     !.completed_at = TRUE]
    ELSE row

\* collect_history_task / retry_failed_stocks_task start: the universe query,
\* then _collect_history_for_stocks inserts the Task row (lines 633-650).
\* where = "query": f is raised by the query; where = "created": the soft
\* time limit is raised after the row's commit and before the driver's try.
CollectStart(t, f, where) ==
    /\ jobs[t] # NoJob
    /\ jobs[t].kind \in {"collect", "retry"}
    /\ jobs[t].pc = "queued"
    /\ WorkerFree
    /\ f \in FaultKinds(t)
    /\ where \in {"query", "created"}
    /\ where = "created" => f = "timelimit" /\ ~ReturnsEarly(jobs[t])
    /\ Inject(f)
    /\ LET j == jobs[t]
           universe == SortedSeq(Universe(j))
           row == NewTaskRow("history_collection", Len(universe))
       IN  IF f # "none" /\ where = "query"
           THEN \* swallowed by the except of collect_history_for_*_stocks, or
                \* handed to _mark_task_failed, which finds no row
                /\ jobs' = [jobs EXCEPT ![t] = Finished(Hit(j, f))]
                /\ UNCHANGED tasks
           ELSE IF f # "none"
           THEN \* the row is committed; collect_history_for_*_stocks swallow the
                \* exception, retry_failed_stocks_task marks the Task failed
                /\ jobs' = [jobs EXCEPT ![t] = Finished(Hit(j, f))]
                /\ tasks' = [tasks EXCEPT ![t] =
                                IF j.kind = "retry"
                                THEN _mark_task_failed(row, "time limit 59 min")
                                ELSE row]
           ELSE IF ReturnsEarly(j)
           THEN /\ jobs' = [jobs EXCEPT ![t] = Finished(j)]
                /\ UNCHANGED tasks
           ELSE /\ jobs' = [jobs EXCEPT ![t].pc = "loop", ![t].stocks = universe]
                /\ tasks' = [tasks EXCEPT ![t] = row]
    /\ UNCHANGED <<stock_vars, clock_vars, side_vars, oracle_out, logs, next_id, cancel_mark>>

\* the handler of the per-stock try (lines 739-743): count a failure, rollback
UnitHandler(c) == [c EXCEPT !.failed = @ + 1, !.processed = @ + 1]

\* the skip branch with one counter forgotten
SkipCounters_NoSuccess(c) ==
    [c EXCEPT !.skipped = @ + 1, !.processed = @ + 1]

\* lines 677-680: counters["skipped"], ["success"] and ["processed"] += 1
SkipCounters(c) ==
    [c EXCEPT !.skipped = @ + 1, !.success = @ + 1, !.processed = @ + 1]

\* lines 666-693: progress update, oracle, then either the skip branch with
\* the progress update of lines 722-729, or the insert of the running log row
CollectUnitBegin(t, f) ==
    /\ jobs[t] # NoJob
    /\ jobs[t].kind \in {"collect", "retry"}
    /\ jobs[t].pc = "loop"
    /\ jobs[t].i <= Len(jobs[t].stocks)
    /\ f \in FaultKinds(t)
    /\ Inject(f)
    /\ LET j == jobs[t]
           s == j.stocks[j.i]
           answer == _should_collect_history(history_records_count[s],
                                             price_dates[s], today, hour)
           skipped == SkipCounters(j.counters)
       IN  IF f # "none"
           THEN \* raised by the oracle's query, after the commit of line 672
                /\ tasks' = [tasks EXCEPT ![t].current_item = j.i - 1,
                                          ![t].message = "processing"]
                /\ jobs' = [jobs EXCEPT ![t] =
                              [Hit(j, f) EXCEPT !.counters = UnitHandler(@),
                                                !.raised = @ \cup {s},
                                                !.i = @ + 1]]
                /\ UNCHANGED logs
           ELSE IF answer.mode = "skip"
           THEN /\ tasks' = [tasks EXCEPT ![t].current_item = j.i,
                                          ![t].success_count = skipped.success,
                                          ![t].failed_count = skipped.failed,
                                          ![t].message = "progress"]
                /\ jobs' = [jobs EXCEPT ![t].counters = skipped, ![t].i = @ + 1]
                /\ UNCHANGED logs
           ELSE /\ tasks' = [tasks EXCEPT ![t].current_item = j.i - 1,
                                          ![t].message = "processing"]
                /\ logs' = [logs EXCEPT ![<<t, s>>] = NewLogRow]
                /\ jobs' = [jobs EXCEPT ![t].pc = "collect",
                                        ![t].collect_mode = answer.mode]
    /\ UNCHANGED <<stock_vars, clock_vars, side_vars, oracle_out, next_id, cancel_mark>>

\* the rows a broker answer holds: the n latest days up to the last trading day
Recent(n) ==
    LET last == _get_last_trading_day(today, hour) IN (last - n + 1)..last

\* the sizes of the broker's answers
BrokerRowCounts == {MIN_RECORDS}

\* lines 696-729: collect_history_for_stock (lines 153-226: the broker call,
\* _save_price_history, the count query and the UPDATE of the Stock row), then
\* the log row and the counters take the result, commit, progress update.
\* outcome "nodata": the broker answered nothing or failed (lines 185-187);
\* "saved": the rows and the Stock fields were committed; "save_error": the
\* rows were committed by _save_price_history and the UPDATE of lines 201-208
\* raised, which the function's own except turns into a failure result.
\* "unconfigured": the crawler has no client and the call returns at once
\* (lines 153-155), which is the outcome of every call when the keys are absent.
\* where = "call": the soft time limit is raised inside the call, before any
\* row is saved, and caught by the same except.  where = "commit": f is raised
\* by the commit of line 719: the handler counts a failure once more and rolls
\* the log row's update back.
CollectUnit(t, outcome, n, f, where) ==
    /\ jobs[t] # NoJob
    /\ jobs[t].kind \in {"collect", "retry"}
    /\ jobs[t].pc = "collect"
    /\ outcome \in {"nodata", "saved", "save_error", "unconfigured"}
    /\ (outcome = "unconfigured") <=> (kis_client = "None")
    /\ n \in BrokerRowCounts
    /\ f \in FaultKinds(t)
    /\ where \in {"call", "commit"}
    /\ where = "call" => f = "timelimit" /\ outcome = "nodata"
    /\ Inject(f)
    /\ LET j == jobs[t]
           s == j.stocks[j.i]
           stored == price_dates[s] \cup Recent(n)
           r == CASE f = "timelimit" /\ where = "call" ->
                       [success |-> FALSE, records_saved |-> 0,
                        error |-> "exception"]
                  [] outcome = "nodata" ->
                       [success |-> FALSE, records_saved |-> 0,
                        error |-> "No data received from API"]
                  [] outcome = "unconfigured" ->
                       [success |-> FALSE, records_saved |-> 0,
                        error |-> "KIS API not configured"]
                  [] outcome = "saved" ->
                       [success |-> TRUE, records_saved |-> n, error |-> ""]
                  [] OTHER ->
                       [success |-> FALSE, records_saved |-> 0,
                        error |-> "exception"]
           c1 == IF j.collect_mode = "incremental"
                 THEN [j.counters EXCEPT !.incremental = @ + 1]
                 ELSE [j.counters EXCEPT !.full = @ + 1]
           c == IF r.success
                THEN [c1 EXCEPT !.success = @ + 1,
                                !.records = @ + r.records_saved,
                                !.processed = @ + 1]
                ELSE [c1 EXCEPT !.failed = @ + 1, !.processed = @ + 1]
       IN  /\ price_dates' = IF outcome \in {"nodata", "unconfigured"}
                             THEN price_dates
                             ELSE [price_dates EXCEPT ![s] = stored]
           /\ history_records_count' =
                  IF outcome = "saved"
                  THEN [history_records_count EXCEPT ![s] = Cardinality(stored)]
                  ELSE history_records_count
           /\ IF f # "none" /\ where = "commit"
              THEN /\ jobs' = [jobs EXCEPT ![t] =
                                 [Hit(j, f) EXCEPT !.counters = UnitHandler(c),
                                                   !.raised = @ \cup {s},
                                                   !.collect_mode = "none",
                                                   !.pc = "loop", !.i = @ + 1]]
                   /\ UNCHANGED <<tasks, logs>>
              ELSE /\ logs' = [logs EXCEPT ![<<t, s>>] =
                                 IF r.success
                                 THEN [status |-> "success",
                                       records_saved |-> r.records_saved,
                                       error_message |-> ""]
                                 ELSE [status |-> "failed", records_saved |-> 0,
                                       error_message |-> r.error]]
                   /\ tasks' = [tasks EXCEPT ![t].current_item = j.i,
                                             ![t].success_count = c.success,
                                             ![t].failed_count = c.failed,
                                             ![t].message = "progress"]
                   /\ jobs' = [jobs EXCEPT ![t] =
                                 [Hit(j, f) EXCEPT !.counters = c,
                                                   !.collect_mode = "none",
                                                   !.pc = "loop", !.i = @ + 1]]
    /\ UNCHANGED <<is_active, tagged, clock_vars, side_vars, oracle_out, next_id, cancel_mark>>

\* lines 745-757: status = "completed", the counters, completed_at; or, when
\* f is raised there, the driver's handler (lines 777-784): status = "failed".
\* The exception then ends in the except of collect_history_for_*_stocks or in
\* _mark_task_failed, which changes only a running row.
CollectFinalize(t, f) ==
    /\ jobs[t] # NoJob
    /\ jobs[t].kind \in {"collect", "retry"}
    /\ jobs[t].pc = "loop"
    /\ jobs[t].i > Len(jobs[t].stocks)
    /\ f \in FaultKinds(t)
    /\ Inject(f)
    /\ LET j == jobs[t] IN
       /\ tasks' = [tasks EXCEPT ![t] =
                      IF f = "none"
                      THEN [@ EXCEPT !.status = "completed",
                                     !.current_item = Len(j.stocks),
                                     !.success_count = j.counters.success,
                                     !.failed_count = j.counters.failed,
                                     !.message = "done",
                                     !.completed_at = TRUE]
                      ELSE _mark_task_failed(
                               [@ EXCEPT !.status = "failed",
                                         !.error_message = "exception",
                                         !.completed_at = TRUE],
                               IF f = "timelimit" THEN "time limit 59 min"
                               ELSE "exception")]
       /\ jobs' = [jobs EXCEPT ![t] = Finished(Hit(j, f))]
    /\ UNCHANGED <<stock_vars, clock_vars, side_vars, oracle_out, logs, next_id, cancel_mark>>

\* celery_app.control.revoke(task_id, terminate=True, signal='SIGTERM') takes
\* effect: the worker process running the task is terminated, at any point
Terminate(t) ==
    /\ jobs[t] # NoJob
    /\ jobs[t].revoked
    /\ ~Stopped(t)
    /\ jobs' = [jobs EXCEPT ![t] = [Finished(@) EXCEPT !.pc = "killed"]]
    /\ UNCHANGED <<stock_vars, clock_vars, side_vars, oracle_out, tasks, logs, next_id,
                   faults, cancel_mark>>

\* -------------------------------------------------------- analysis drivers

\* task_type of the row an analysis driver inserts
AnalysisType(j) == IF j.kind = "ma" THEN "ma_signal_analysis" ELSE "signal_analysis"

\* _get_stock_ids_by_mode before the delta filter: the tagged stocks, or the
\* active ones, that have at least 60 (MA: 200) StockPriceHistory rows
Candidates(j) ==
    LET selected == IF j.mode = "tagged" THEN tagged
                    ELSE {s \in Stocks : is_active[s]}
        needed == IF j.kind = "ma" THEN MA_MIN_HISTORY ELSE SIGNAL_MIN_HISTORY
    IN  {s \in selected : Cardinality(price_dates[s]) >= needed}

\* the delta filter reads Stock.signal_analyzed_at and Stock.history_updated_at,
\* which the Stock model (models.py lines 22-65) does not define: building the
\* filter raises AttributeError whenever it is built
DeltaFilterRaises(j) == ~j.force_full /\ Candidates(j) # {}

\* analyze_and_store_signals up to the insert of the Task row (signal_analyzer
\* lines 58-75, ma_signal_analyzer lines 79-96).  An exception raised before
\* the row exists leaves task_progress None: the handler only re-raises.
AnalyzeStart(t, f) ==
    /\ jobs[t] # NoJob
    /\ jobs[t].kind \in {"signal", "ma"}
    /\ jobs[t].pc = "queued"
    /\ WorkerFree
    /\ f \in FaultKinds(t)
    /\ Inject(f)
    /\ LET j == jobs[t]
           stock_ids == SortedSeq(Candidates(j))
       IN  IF f # "none" \/ DeltaFilterRaises(j)
           THEN /\ jobs' = [jobs EXCEPT ![t] = Finished(Hit(j, f))]
                /\ UNCHANGED tasks
           ELSE /\ jobs' = [jobs EXCEPT ![t].pc = "loop", ![t].stocks = stock_ids]
                /\ tasks' = [tasks EXCEPT ![t] =
                                NewTaskRow(AnalysisType(j), Len(stock_ids))]
    /\ UNCHANGED <<stock_vars, clock_vars, side_vars, oracle_out, logs, next_id, cancel_mark>>

\* the row after the MA driver's break: lines 138-143 with the status it has
\* just refreshed as cancelled
MAFinalRow(row, pending) ==
    [row EXCEPT !.current_item = row.success_count + pending + row.failed_count,
                !.success_count = @ + pending,
                !.message = "done", !.completed_at = TRUE]

\* the head of the loop over stock_ids.  MA driver (lines 105-118): refresh
\* the Task row, which drops the unflushed success_count, and break when it is
\* cancelled.  Then the progress update and its commit (signal_analyzer lines
\* 84-95), which flushes a pending success_count.  f is raised there: the
\* handler adds a failure and commits.
AnalyzeUnitBegin(t, f) ==
    /\ jobs[t] # NoJob
    /\ jobs[t].kind \in {"signal", "ma"}
    /\ jobs[t].pc = "loop"
    /\ jobs[t].i <= Len(jobs[t].stocks)
    /\ f \in FaultKinds(t)
    /\ LET j == jobs[t]
           pending == IF j.kind = "ma" THEN 0 ELSE j.pending_success
       IN  IF j.kind = "ma" /\ tasks[t].status = "cancelled"
           THEN /\ f = "none"
                /\ tasks' = [tasks EXCEPT ![t] = MAFinalRow(@, 0)]
                /\ jobs' = [jobs EXCEPT ![t] = Finished(j)]
           ELSE IF f # "none"
           THEN /\ tasks' = [tasks EXCEPT ![t].success_count = @ + pending,
                                          ![t].failed_count = @ + 1]
                /\ jobs' = [jobs EXCEPT ![t] =
                              [Hit(j, f) EXCEPT !.pending_success = 0,
                                                !.seen_status = "expired",
                                                !.i = @ + 1]]
           ELSE /\ tasks' = [tasks EXCEPT ![t].current_item = j.i,
                                          ![t].success_count = @ + pending,
                                          ![t].message = "processing"]
                /\ jobs' = [jobs EXCEPT ![t].pc = "analyze",
                                        ![t].pending_success = 0]
    /\ Inject(f)
    /\ UNCHANGED <<stock_vars, clock_vars, side_vars, oracle_out, logs, next_id, cancel_mark>>

\* _analyze_stock for the stock, then task_progress.success_count += 1, which
\* reloads the expired row and stays unflushed until the next commit.  f is
\* raised inside _analyze_stock: the handler adds a failure and commits.
AnalyzeUnit(t, f) ==
    /\ jobs[t] # NoJob
    /\ jobs[t].kind \in {"signal", "ma"}
    /\ jobs[t].pc = "analyze"
    /\ f \in FaultKinds(t)
    /\ Inject(f)
    /\ LET j == jobs[t] IN
       IF f # "none"
       THEN /\ tasks' = [tasks EXCEPT ![t].failed_count = @ + 1]
            /\ jobs' = [jobs EXCEPT ![t] =
                          [Hit(j, f) EXCEPT !.seen_status = "expired",
                                            !.pc = "loop", !.i = @ + 1]]
       ELSE /\ UNCHANGED tasks
            /\ jobs' = [jobs EXCEPT ![t].pending_success = 1,
                                    ![t].seen_status = tasks[t].status,
                                    ![t].pc = "loop", ![t].i = @ + 1]
    /\ UNCHANGED <<stock_vars, clock_vars, side_vars, oracle_out, logs, next_id, cancel_mark>>

\* the end of analyze_and_store_signals.  signal_analyzer lines 116-121:
\* status = "completed".  ma_signal_analyzer lines 137-143: status =
\* "completed" unless the status the session holds (loaded at the last
\* success_count += 1, or reloaded when expired) is "cancelled".  f is raised
\* there: the driver's handler sets status = "failed" and re-raises, and
\* _mark_task_failed then finds the row not running.
AnalyzeFinalize(t, f) ==
    /\ jobs[t] # NoJob
    /\ jobs[t].kind \in {"signal", "ma"}
    /\ jobs[t].pc = "loop"
    /\ jobs[t].i > Len(jobs[t].stocks)
    /\ f \in FaultKinds(t)
    /\ Inject(f)
    /\ LET j == jobs[t]
           row == tasks[t]
           held == IF j.seen_status = "expired" THEN row.status ELSE j.seen_status
       IN
       /\ tasks' = [tasks EXCEPT ![t] =
                      IF f # "none"
                      THEN [@ EXCEPT !.status = "failed",
                                     !.success_count = @ + j.pending_success,
                                     !.error_message = "exception",
                                     !.completed_at = TRUE]
                      ELSE IF j.kind = "signal"
                      THEN [@ EXCEPT !.status = "completed",
                                     !.current_item = Len(j.stocks),
                                     !.success_count = @ + j.pending_success,
                                     !.message = "done",
                                     !.completed_at = TRUE]
                      ELSE [MAFinalRow(@, j.pending_success) EXCEPT !.status =
                               IF held = "cancelled" THEN @ ELSE "completed"]]
       /\ jobs' = [jobs EXCEPT ![t] = Finished(Hit(j, f))]
    /\ UNCHANGED <<stock_vars, clock_vars, side_vars, oracle_out, logs, next_id, cancel_mark>>

\* ------------------------------------------- specification of the Task Runner

\* get_kis_client(): a KISClient, or None when KIS_APP_KEY or KIS_APP_SECRET
\* is not set
KisClients == {"KISClient", "None"}

\* no ingestion of a single stock is under way
IngestIdle ==
    /\ price_rows = <<>>
    /\ ma90_price = NoMean
    /\ history_updated_at = NULL
    /\ writers = <<>>
    /\ n_collect = 0

\* no analysis session is open; stocks.signal_analyzed_at is NULL in every
\* row (main.py line 197 adds the column, nothing writes it)
SignalIdle ==
    /\ signals = {}
    /\ analysts = <<>>
    /\ bars = <<>>
    /\ n_analyses = 0
    /\ signal_analyzed_at = [s \in Stocks |-> NULL]

\* find_lower_highs before it is called
NotCalled == [called |-> FALSE, returned |-> <<>>]

\* no trendline function is applied
TrendIdle ==
    /\ df = <<>>
    /\ lower_highs = NotCalled
    /\ buy_signals = <<>>

\* no process shares a token cache
SharedIdle ==
    /\ cache_file = <<>>
    /\ clients = <<>>
    /\ token_requests = 0
    /\ SignalIdle
    /\ TrendIdle

\* no broker client is in use
BrokerIdle ==
    /\ access_token = FALSE
    /\ token_expired_at = NULL
    /\ now = 0
    /\ sent = NoRequest
    /\ unit_result = NoResult

\* the PriceHistory a stock starts with, by stock id: MIN_RECORDS days and
\* MA_MIN_HISTORY days, the last one three days old; none
InitialHistory(s) ==
    CASE s % 3 = 1 -> (Today - MIN_RECORDS - 2)..(Today - 3)
      [] s % 3 = 2 -> (Today - MA_MIN_HISTORY - 2)..(Today - 3)
      [] OTHER -> {}

Init ==
    /\ is_active = [s \in Stocks |-> TRUE]
    /\ tagged \in {{}, {1}}
    /\ price_dates = [s \in Stocks |-> InitialHistory(s)]
    /\ history_records_count = [s \in Stocks |-> Cardinality(price_dates[s])]
    /\ today = Today
    /\ hour = CLOSE_HOUR
    /\ oracle_out = NoAnswer
    /\ tasks = [t \in TaskIds |-> NoRow]
    /\ logs = [k \in TaskIds \X Stocks |-> NoLog]
    /\ jobs = [t \in TaskIds |-> NoJob]
    /\ next_id = 1
    /\ faults = 0
    /\ cancel_mark = [t \in TaskIds |-> NULL]
    /\ kis_client \in KisClients
    /\ IngestIdle
    /\ BrokerIdle
    /\ SharedIdle

Modes == {"all", "tagged"}

Next ==
    \/ \E m \in Modes : collect_history_for_stocks(m)
    \/ \E m \in Modes, ff \in BOOLEAN : refresh_signals(m, ff)
    \/ \E ff \in BOOLEAN : ma_analyze_and_store_signals(ff)
    \/ \E t \in TaskIds : cancel_task(t)
    \/ \E t \in TaskIds : restart_task(t)
    \/ \E t \in TaskIds : retry_failed_stocks(t)
    \/ \E s \in Stocks : Deactivate(s)
    \/ \E t \in TaskIds, f \in {"none", "error", "timelimit"},
          w \in {"query", "created"} : CollectStart(t, f, w)
    \/ \E t \in TaskIds, f \in {"none", "error", "timelimit"} : CollectUnitBegin(t, f)
    \/ \E t \in TaskIds, o \in {"nodata", "saved", "save_error", "unconfigured"},
          n \in BrokerRowCounts, f \in {"none", "error", "timelimit"},
          w \in {"call", "commit"} : CollectUnit(t, o, n, f, w)
    \/ \E t \in TaskIds, f \in {"none", "error", "timelimit"} : CollectFinalize(t, f)
    \/ \E t \in TaskIds, f \in {"none", "error", "timelimit"} : AnalyzeStart(t, f)
    \/ \E t \in TaskIds, f \in {"none", "error", "timelimit"} : AnalyzeUnitBegin(t, f)
    \/ \E t \in TaskIds, f \in {"none", "error", "timelimit"} : AnalyzeUnit(t, f)
    \/ \E t \in TaskIds, f \in {"none", "error", "timelimit"} : AnalyzeFinalize(t, f)
    \/ \E t \in TaskIds : Terminate(t)

Spec == Init /\ [][Next]_vars

\* ---------------------------------------------- specification of the oracle

\* the values history_records_count takes around the MIN_RECORDS threshold
OracleCounts == {NULL, 0, 1, MIN_RECORDS - 1, MIN_RECORDS, MIN_RECORDS + 1}

\* the stored dates of a stock: any set of days within OracleSpan days of Today
OracleDays == (Today - OracleSpan)..(Today + OracleSpan)

\* one stock takes every combination of cached count and stored dates, on
\* every weekday, before and after the market close; the others have no history
InitOracle ==
    /\ is_active = [s \in Stocks |-> TRUE]
    /\ tagged = {}
    /\ \E s \in Stocks, c \in OracleCounts, D \in SUBSET OracleDays :
          /\ history_records_count = [x \in Stocks |-> IF x = s THEN c ELSE 0]
          /\ price_dates = [x \in Stocks |-> IF x = s THEN D ELSE {}]
    /\ today \in Today..(Today + 6)
    /\ hour \in {CLOSE_HOUR - 1, CLOSE_HOUR}
    /\ oracle_out = NoAnswer
    /\ tasks = [t \in TaskIds |-> NoRow]
    /\ logs = [k \in TaskIds \X Stocks |-> NoLog]
    /\ jobs = [t \in TaskIds |-> NoJob]
    /\ next_id = 1
    /\ faults = 0
    /\ cancel_mark = [t \in TaskIds |-> NULL]
    /\ kis_client = "KISClient"
    /\ IngestIdle
    /\ BrokerIdle
    /\ SharedIdle

NextOracle == \E s \in Stocks : ConsultOracle(s)

SpecOracle == InitOracle /\ [][NextOracle]_vars

\* ------------------------------------------- specification of the KIS client

\* the tables hold no task
TasksIdle ==
    /\ is_active = [s \in Stocks |-> TRUE]
    /\ tagged = {}
    /\ today = Today
    /\ hour = CLOSE_HOUR
    /\ oracle_out = NoAnswer
    /\ tasks = [t \in TaskIds |-> NoRow]
    /\ logs = [k \in TaskIds \X Stocks |-> NoLog]
    /\ jobs = [t \in TaskIds |-> NoJob]
    /\ next_id = 1
    /\ faults = 0
    /\ cancel_mark = [t \in TaskIds |-> NULL]

\* the Task Runner is idle and the stocks have no history
RunnerIdle ==
    /\ TasksIdle
    /\ price_dates = [s \in Stocks |-> {}]
    /\ history_records_count = [s \in Stocks |-> 0]

runner_vars == <<stock_vars, clock_vars, oracle_out, task_vars>>

\* timedelta(minutes=5): a token is renewed this long before its expiry
REFRESH_MARGIN == 5

\* result.get("expires_in", 86400), in minutes
DEFAULT_EXPIRES_IN == 1440

\* the clock stops here
MaxNow == 12

\* requests the token endpoint takes
MaxTokenRequests == 2

\* the clock of the processes that share the cache file stops here
MaxSharedNow == 3

\* the lifetimes the token endpoint grants, in minutes
ExpiresIn == {REFRESH_MARGIN + 1, REFRESH_MARGIN + 3, DEFAULT_EXPIRES_IN}

\* expired_at of the token in the cache file when the client is built: no
\* file or no entry, a token about to expire, a token good for a while
CachedTokens == {NULL, REFRESH_MARGIN - 2, REFRESH_MARGIN + 2}

\* what the broker does with an OHLCV request: rt_cd "0" with output2, a
\* rt_cd other than "0" with its msg1, an HTTP or network error
Answers == {"output2", "msg1: EGW00201 rate limit", "ConnectError"}

\* what happens to a token request
IssueOutcomes == {"issued", "http_error", "bad_expires_in"}

\* the expiry test without the margin
IsTokenExpired_NoMargin(expired_at, t) ==
    IF expired_at = NULL THEN TRUE ELSE t >= expired_at

\* lines 156-161
_is_token_expired(expired_at, t) ==
    IF expired_at = NULL THEN TRUE ELSE t >= expired_at - REFRESH_MARGIN

\* lines 73-113: the cached token is taken only when it has more than the
\* margin left
_load_cached_token(expired_at, t) ==
    IF expired_at = NULL \/ t >= expired_at - REFRESH_MARGIN
    THEN [access_token |-> FALSE, token_expired_at |-> NULL]
    ELSE [access_token |-> TRUE, token_expired_at |-> expired_at]

\* lines 163-197: access_token is assigned before expires_in is parsed; any
\* exception is logged and raised again
_issue_token(outcome, expires_in) ==
    CASE outcome = "issued" ->
             [access_token |-> TRUE, token_expired_at |-> now + expires_in,
              raised |-> FALSE]
      [] outcome = "bad_expires_in" ->
             [access_token |-> TRUE, token_expired_at |-> token_expired_at,
              raised |-> TRUE]
      [] OTHER ->
             [access_token |-> access_token,
              token_expired_at |-> token_expired_at, raised |-> TRUE]

\* lines 151-154
_ensure_token(outcome, expires_in) ==
    IF ~access_token \/ _is_token_expired(token_expired_at, now)
    THEN _issue_token(outcome, expires_in)
    ELSE [access_token |-> access_token,
          token_expired_at |-> token_expired_at, raised |-> FALSE]

\* Stock.exchange of a US stock (models.py line 29, a nullable String): the
\* three names the map knows, one of them in lower case too, a name it does
\* not know, and no value (None)
Exchanges == {"NASDAQ", "NYSE", "AMEX", "nyse", "ARCA", "None"}

\* str.upper() on these names
upper(exchange) == IF exchange = "nyse" THEN "NYSE" ELSE exchange

\* lines 310-325: exchange_map.get(exchange.upper(), "NAS"); None has no
\* upper(), the call raises AttributeError
_get_us_exchange_code(exchange) ==
    IF exchange = "None" THEN "AttributeError"
    ELSE CASE upper(exchange) = "NASDAQ" -> "NAS"
           [] upper(exchange) = "NYSE" -> "NYS"
           [] upper(exchange) = "AMEX" -> "AMS"
           [] OTHER -> "NAS"

\* collect_history_for_stock (lines 175-187, 220-222) on a US stock, down to
\* the request.  The exchange code is computed first, inside the try of
\* collect_history_for_stock: an exception there is logged and answered with
\* its text, and nothing is sent.
\* _collect_us_stock_history calls get_us_stock_ohlcv, which builds
\* the headers with _get_headers (_ensure_token, then "Bearer <token>")
\* outside its try and sends the request inside it.  A rt_cd other than "0"
\* and any exception of the request are logged there and answered with [];
\* an exception of _ensure_token is logged by _collect_us_stock_history and
\* answered with [].  An empty list makes the result "No data received from
\* API"; rows are saved and the result is a success.
collect_us_stock_history(outcome, expires_in, answer, exchange) ==
    /\ outcome \in IssueOutcomes
    /\ expires_in \in ExpiresIn
    /\ answer \in Answers
    /\ exchange \in Exchanges
    /\ LET excd == _get_us_exchange_code(exchange)
           token == _ensure_token(outcome, expires_in)
           ohlcv_data == IF ~token.raised /\ answer = "output2" THEN 1 ELSE 0
       IN  IF excd = "AttributeError"
           THEN /\ unit_result' = [success |-> FALSE, records_saved |-> 0,
                                   error |-> "AttributeError"]
                /\ UNCHANGED <<access_token, token_expired_at, sent>>
           ELSE
           /\ access_token' = token.access_token
           /\ token_expired_at' = token.token_expired_at
           /\ sent' = IF token.raised THEN sent
                      ELSE [at |-> now, bearer |-> token.access_token,
                            expiry |-> token.token_expired_at,
                            answer |-> answer, excd |-> excd]
           /\ unit_result' =
                  IF ohlcv_data = 0
                  THEN [success |-> FALSE, records_saved |-> 0,
                        error |-> "No data received from API"]
                  ELSE [success |-> TRUE, records_saved |-> ohlcv_data,
                        error |-> ""]
    /\ UNCHANGED <<runner_vars, kis_client, shared_vars, ingest_vars, now>>

\* time passes
Tick ==
    /\ now < MaxNow
    /\ now' = now + 1
    /\ UNCHANGED <<runner_vars, kis_client, shared_vars, ingest_vars, access_token,
                   token_expired_at, sent, unit_result>>

\* KISClient.__init__ (lines 31-71): no token, or the one of the cache file
InitBroker ==
    /\ RunnerIdle
    /\ kis_client = "KISClient"
    /\ IngestIdle
    /\ now = 0
    /\ \E cached \in CachedTokens :
          /\ access_token = _load_cached_token(cached, now).access_token
          /\ token_expired_at = _load_cached_token(cached, now).token_expired_at
    /\ sent = NoRequest
    /\ unit_result = NoResult
    /\ SharedIdle

NextBroker ==
    \/ Tick
    \/ \E o \in IssueOutcomes, e \in ExpiresIn, a \in Answers, x \in Exchanges :
          collect_us_stock_history(o, e, a, x)

SpecBroker == InitBroker /\ [][NextBroker]_vars

\* ------------------------------------ specification of the token cache

\* processes with a KISClient
NumClients == 2

ClientIds == 1..NumClients

\* _get_cache_key(): md5 of app_key and is_mock
CacheKeys == {"key_a", "key_b"}

\* the lifetimes the token endpoint grants these processes
SharedExpiresIn == {REFRESH_MARGIN + 1, DEFAULT_EXPIRES_IN}

\* no token in memory (None), no entry in the file
NoToken == [by |-> 0, n |-> 0]
NoEntry == [access_token |-> NoToken, expired_at |-> NULL]

\* a process that is between two steps of its client
ReadyClient(key, cached) ==
    [key |-> key, pc |-> "ready", access_token |-> cached.access_token,
     token_expired_at |-> cached.expired_at, cache_data |-> <<>>,
     restarts |-> 0]

\* a load that takes any entry that has not expired yet
LoadEntry_NoMargin(cache_data, key, t) ==
    IF cache_data[key].expired_at = NULL \/ t >= cache_data[key].expired_at
    THEN NoEntry ELSE cache_data[key]

\* _load_cached_token (lines 73-113) on the content of the file: the entry of
\* the client's key when it has more than the margin left
LoadEntry(cache_data, key, t) ==
    IF _load_cached_token(cache_data[key].expired_at, t).access_token
    THEN cache_data[key] ELSE NoEntry

\* KISClient.__init__ (lines 57-71) in a process that starts again: the token
\* in memory is gone, the one of the cache file is loaded
Restart(c) ==
    /\ clients[c].pc = "ready"
    /\ clients[c].restarts = 0
    /\ clients' = [clients EXCEPT
          ![c] = [ReadyClient(@.key, LoadEntry(cache_file, @.key, now))
                     EXCEPT !.restarts = 1]]
    /\ UNCHANGED <<runner_vars, kis_client, ingest_vars, broker_vars,
                   cache_file, token_requests, signal_vars, trend_vars>>

\* an API call of client c: _get_headers calls _ensure_token (lines 151-154),
\* which only looks at the token in memory; when that is absent or within the
\* margin of its expiry, _issue_token (lines 163-197) posts to the token
\* endpoint, and with a token issued _save_token_cache (lines 116-149) starts
\* by reading the file
ApiCall(c, outcome, expires_in) ==
    /\ clients[c].pc = "ready"
    /\ outcome \in {"issued", "http_error"}
    /\ expires_in \in SharedExpiresIn
    /\ clients[c].access_token = NoToken
       \/ _is_token_expired(clients[c].token_expired_at, now)
    /\ token_requests < MaxTokenRequests
    /\ token_requests' = token_requests + 1
    /\ clients' = [clients EXCEPT
          ![c] = IF outcome = "issued"
                 THEN [@ EXCEPT !.access_token =
                                    [by |-> c, n |-> token_requests + 1],
                                !.token_expired_at = now + expires_in,
                                !.cache_data = cache_file,
                                !.pc = "saving"]
                 ELSE @]
    /\ UNCHANGED <<runner_vars, kis_client, ingest_vars, broker_vars, cache_file,
                   signal_vars, trend_vars>>

\* _save_token_cache, lines 131-142: the entry of the client's key is set in
\* the content that was read, and the file is written with it
SaveWrite(c) ==
    /\ clients[c].pc = "saving"
    /\ cache_file' = [clients[c].cache_data EXCEPT
          ![clients[c].key] =
              [access_token |-> clients[c].access_token,
               expired_at |-> clients[c].token_expired_at]]
    /\ clients' = [clients EXCEPT ![c].pc = "ready", ![c].cache_data = <<>>]
    /\ UNCHANGED <<runner_vars, kis_client, ingest_vars, broker_vars,
                   token_requests, signal_vars, trend_vars>>

\* time passes for the processes
TickShared ==
    /\ now < MaxSharedNow
    /\ now' = now + 1
    /\ UNCHANGED <<runner_vars, kis_client, ingest_vars, access_token,
                   token_expired_at, sent, unit_result, shared_vars>>

\* two processes built their clients on an empty cache file, or on one that
\* holds a token another process stored for key_a
InitToken ==
    /\ RunnerIdle
    /\ kis_client = "KISClient"
    /\ IngestIdle
    /\ BrokerIdle
    /\ SignalIdle
    /\ TrendIdle
    /\ token_requests = 0
    /\ \E e \in {NULL, REFRESH_MARGIN + 2} :
          cache_file = [k \in CacheKeys |->
                           IF k = "key_a" /\ e # NULL
                           THEN [access_token |-> [by |-> 0, n |-> 1],
                                 expired_at |-> e]
                           ELSE NoEntry]
    /\ \E k \in CacheKeys :
          clients = [c \in ClientIds |->
                        LET key == IF c = 1 THEN "key_a" ELSE k
                        IN  ReadyClient(key, LoadEntry(cache_file, key, now))]

NextToken ==
    \/ TickShared
    \/ \E c \in ClientIds : Restart(c)
    \/ \E c \in ClientIds, o \in {"issued", "http_error"}, e \in SharedExpiresIn :
          ApiCall(c, o, e)
    \/ \E c \in ClientIds : SaveWrite(c)

SpecToken == InitToken /\ [][NextToken]_vars

\* ------------------------------- specification of one stock's PriceHistory

\* the stock whose rows are followed
TheStock == 1

\* limit(90): the rows the moving average is taken over
MA_WINDOW == 90

\* len(prices) < 60: below this the moving average is not computed
MA_MIN_ROWS == 60

\* the rows are kept for this many days up to Today
HistoryDays == 92

\* ingestions (collections, crawl-history calls) that are started
MaxCollections == 3

\* sessions that collect the stock at the same time
NumWriters == 2

Days == (Today - HistoryDays)..Today
Writers == 1..NumWriters

\* open, high, low, close of a row: two sound quotes, one with high < low,
\* one whose range (high - low) / low is exactly 10
Qa == [open |-> 3, high |-> 4, low |-> 2, close |-> 3]
Qb == [open |-> 5, high |-> 6, low |-> 4, close |-> 5]
Qbad == [open |-> 3, high |-> 2, low |-> 4, close |-> 3]
Qwide == [open |-> 1, high |-> 11, low |-> 1, close |-> 1]

Row(d, q) == [date |-> d, q |-> q]

\* what the broker answers for the stock: nothing; the two latest days, the
\* first of them stored already at the start; the same day twice; a row whose
\* prices are inconsistent
BrokerResponses ==
    { <<>>,
      <<Row(Today - 2, Qb), Row(Today - 1, Qa)>>,
      <<Row(Today, Qa), Row(Today, Qb)>>,
      <<Row(Today, Qbad)>> }

\* what the Naver page holds for the stock
NaverResponses ==
    { <<Row(Today - 1, Qa)>>, <<Row(Today, Qwide)>>, <<Row(Today, Qbad)>> }

\* the numbers of rows the stock starts with
InitRowCounts == {0, MA_MIN_ROWS - 1, MA_WINDOW + 1}

\* a session that is not collecting
IdleWriter ==
    [pc |-> "idle", id |-> 0, ohlcv |-> <<>>, pending |-> <<>>, new_rows |-> 0,
     total_records |-> 0, ma90 |-> NoMean, result |-> NoResult, prev |-> <<>>]

\* rows of the stock with date in lo..hi
RECURSIVE CountRows(_, _, _)
CountRows(table, lo, hi) ==
    IF lo > hi THEN 0
    ELSE IF lo = hi THEN Len(table[lo])
    ELSE LET mid == (lo + hi) \div 2
         IN  CountRows(table, lo, mid) + CountRows(table, mid + 1, hi)

\* SELECT COUNT(*) of the stock's rows (lines 193-195)
RowCount(table) == CountRows(table, Today - HistoryDays, Today)

StoredDates(table) == {d \in DOMAIN table : table[d] # <<>>}

\* a table without the constraint
NoConstraint(table) == TRUE

\* UniqueConstraint('stock_id', 'date') (models.py line 141)
UniqueConstraint(table) == \A d \in DOMAIN table : Len(table[d]) <= 1

\* the loop of _save_price_history (lines 346-376) over the rows from i on:
\* a row whose date the table holds is updated, any other is added to the
\* session; the session does not flush before a query (autoflush=False), so a
\* date added earlier in the loop is not found
RECURSIVE PendingOps(_, _, _)
PendingOps(table, ohlcv_data, i) ==
    IF i > Len(ohlcv_data) THEN <<>>
    ELSE <<[date |-> ohlcv_data[i].date, q |-> ohlcv_data[i].q,
            op |-> IF table[ohlcv_data[i].date] # <<>> THEN "update"
                   ELSE "insert"]>>
         \o PendingOps(table, ohlcv_data, i + 1)

\* the table after the flush of the session's pending rows, from i on
RECURSIVE Flushed(_, _, _)
Flushed(table, pending, i) ==
    IF i > Len(pending) THEN table
    ELSE LET o == pending[i]
             t == IF o.op = "insert"
                  THEN [table EXCEPT ![o.date] = Append(@, o.q)]
                  ELSE [table EXCEPT ![o.date] =
                           IF @ = <<>> THEN @ ELSE <<o.q>> \o Tail(@)]
         IN  Flushed(t, pending, i + 1)

Inserts(pending) == {i \in 1..Len(pending) : pending[i].op = "insert"}

\* sum of the closes of the first n rows of one day
RECURSIVE DayCloses(_, _)
DayCloses(rows, n) ==
    IF n = 0 THEN 0 ELSE rows[n].close + DayCloses(rows, n - 1)

\* sum of the closes of the rows with date in lo..hi
RECURSIVE SumCloses(_, _, _)
SumCloses(table, lo, hi) ==
    IF lo > hi THEN 0
    ELSE IF lo = hi THEN DayCloses(table[lo], Len(table[lo]))
    ELSE LET mid == (lo + hi) \div 2
         IN  SumCloses(table, lo, mid) + SumCloses(table, mid + 1, hi)

\* the latest day of lo..hi from which on there are k rows, lo if there is none
RECURSIVE CutDay(_, _, _, _)
CutDay(table, lo, hi, k) ==
    IF lo = hi THEN lo
    ELSE LET mid == (lo + hi + 1) \div 2
         IN  IF CountRows(table, mid, Today) >= k
             THEN CutDay(table, mid, hi, k)
             ELSE CutDay(table, lo, mid - 1, k)

\* order_by(date.desc()).limit(k): sum and number of the closes of the k most
\* recent rows
RecentCloses(table, k) ==
    LET cut == CutDay(table, Today - HistoryDays, Today, k)
        after == CountRows(table, cut + 1, Today)
        here == IF Len(table[cut]) < k - after THEN Len(table[cut])
                ELSE k - after
    IN  [sum |-> SumCloses(table, cut + 1, Today) + DayCloses(table[cut], here),
         len |-> after + here]

\* two means sum / len are the same number
SameMean(a, b) ==
    /\ (a.len = 0) = (b.len = 0)
    /\ a.sum * b.len = b.sum * a.len

\* _calculate_and_update_ma90 (lines 26-60): the mean of the closes of the 90
\* most recent rows, or None with fewer than 60 rows
_calculate_and_update_ma90(table) ==
    LET prices == RecentCloses(table, MA_WINDOW)
    IN  IF prices.len < MA_MIN_ROWS THEN NoMean ELSE prices

\* the rows the stock starts with: n days up to the day before yesterday
InitialRows(n) ==
    [d \in Days |->
        IF d > Today - 2 - n /\ d <= Today - 2
        THEN <<IF d % 2 = 0 THEN Qa ELSE Qb>>
        ELSE <<>>]

\* the other sessions hold no lock on the Stock row: a session that has run
\* the UPDATE of ma90_price keeps the row locked until it commits
RowUnlocked(w) ==
    \A v \in Writers \ {w} :
        ~(writers[v].pc = "counted" /\ writers[v].ma90 # NoMean)

\* collect_history_for_stock, lines 175-187 and the loop of
\* _save_price_history: the broker's answer, then one query per row
CollectBegin(w, ohlcv_data) ==
    /\ writers[w].pc = "idle"
    /\ n_collect < MaxCollections
    /\ ohlcv_data \in BrokerResponses
    /\ n_collect' = n_collect + 1
    /\ LET pending == PendingOps(price_rows, ohlcv_data, 1) IN
       writers' = [writers EXCEPT ![w] =
           IF ohlcv_data = <<>>
           THEN [@ EXCEPT !.id = n_collect + 1, !.ohlcv = ohlcv_data,
                          !.result = [success |-> FALSE, records_saved |-> 0,
                                      error |-> "No data received from API"]]
           ELSE [@ EXCEPT !.pc = "pending", !.id = n_collect + 1,
                          !.ohlcv = ohlcv_data, !.pending = pending,
                          !.new_rows = Cardinality(Inserts(pending)),
                          !.result = NoResult]]
    /\ UNCHANGED <<runner_vars, kis_client, shared_vars, broker_vars, price_rows,
                   ma90_price, history_updated_at>>

\* db.commit() of _save_price_history (line 381): the rows are flushed and
\* committed, or the constraint raises IntegrityError and nothing is stored;
\* the except of collect_history_for_stock makes that a failure result
SaveCommit(w) ==
    /\ writers[w].pc = "pending"
    /\ LET table == Flushed(price_rows, writers[w].pending, 1) IN
       IF UniqueConstraint(table)
       THEN /\ price_rows' = table
            /\ writers' = [writers EXCEPT ![w].pc = "saved"]
       ELSE /\ price_rows' = price_rows
            /\ writers' = [writers EXCEPT
                  ![w] = [@ EXCEPT !.pc = "idle",
                                   !.result = [success |-> FALSE,
                                               records_saved |-> 0,
                                               error |-> "IntegrityError"]]]
    /\ price_dates' = [price_dates EXCEPT ![TheStock] = StoredDates(price_rows')]
    /\ UNCHANGED <<is_active, tagged, history_records_count, clock_vars,
                   oracle_out, task_vars, kis_client, shared_vars, broker_vars, ma90_price,
                   history_updated_at, n_collect>>

\* lines 193-198: the count query, then _calculate_and_update_ma90, whose
\* UPDATE stays uncommitted
CountAndMa90(w) ==
    /\ writers[w].pc = "saved"
    /\ RowUnlocked(w)
    /\ writers' = [writers EXCEPT
          ![w] = [@ EXCEPT !.pc = "counted",
                           !.total_records = RowCount(price_rows),
                           !.ma90 = _calculate_and_update_ma90(price_rows)]]
    /\ UNCHANGED <<runner_vars, kis_client, shared_vars, broker_vars, price_rows,
                   ma90_price, history_updated_at, n_collect>>

\* lines 201-218: the UPDATE of history_records_count and history_updated_at
\* and the commit, then the success result with records_saved = saved_count,
\* the number of rows the loop went through.  outcome "raised": the UPDATE
\* raises on the key the Stock model does not map, the except makes it a
\* failure result, and the caller's next commit (line 719) stores ma90_price.
UpdateStock(w, outcome) ==
    /\ writers[w].pc = "counted"
    /\ outcome \in {"updated", "raised"}
    /\ ma90_price' = IF writers[w].ma90 = NoMean THEN ma90_price
                     ELSE writers[w].ma90
    /\ IF outcome = "updated"
       THEN /\ history_records_count' =
                   [history_records_count EXCEPT
                       ![TheStock] = writers[w].total_records]
            /\ history_updated_at' = writers[w].id
            /\ writers' = [writers EXCEPT
                  ![w] = [@ EXCEPT !.pc = "idle",
                                   !.prev = writers[w].ohlcv,
                                   !.result =
                                       [success |-> TRUE, error |-> "",
                                        records_saved |->
                                            Len(writers[w].ohlcv)]]]
       ELSE /\ UNCHANGED <<history_records_count, history_updated_at>>
            /\ writers' = [writers EXCEPT
                  ![w] = [@ EXCEPT !.pc = "idle",
                                   !.result = [success |-> FALSE,
                                               records_saved |-> 0,
                                               error |-> "exception"]]]
    /\ UNCHANGED <<is_active, tagged, price_dates, clock_vars, oracle_out,
                   task_vars, kis_client, shared_vars, broker_vars, price_rows, n_collect>>

\* PriceHistoryCrawler._validate_price_data (price_history_crawler.py lines
\* 129-175)
_validate_price_data(q) ==
    /\ q.open >= 0 /\ q.high >= 0 /\ q.low >= 0 /\ q.close >= 0
    /\ ~(q.high < Max({q.open, q.low, q.close}))
    /\ ~(q.low > Min({q.open, q.high, q.close}))
    /\ (q.high > 0 /\ q.low > 0) => ~(q.high - q.low > 10 * q.low)

\* fetch_price_history keeps the rows that pass _validate_price_data
RECURSIVE ValidRows(_, _)
ValidRows(rows, i) ==
    IF i > Len(rows) THEN <<>>
    ELSE (IF _validate_price_data(rows[i].q) THEN <<rows[i]>> ELSE <<>>)
         \o ValidRows(rows, i + 1)

\* POST /api/stocks/{id}/crawl-history (main.py lines 795-876): the rows of
\* the Naver page are updated or added and committed; history_records_count
\* is not written.  IntegrityError is rolled back and answered with 500.
crawl_stock_price_history(page) ==
    /\ n_collect < MaxCollections
    /\ page \in NaverResponses
    /\ n_collect' = n_collect + 1
    /\ LET price_data == ValidRows(page, 1)
           table == Flushed(price_rows, PendingOps(price_rows, price_data, 1), 1)
       IN  price_rows' = IF UniqueConstraint(table) THEN table ELSE price_rows
    /\ price_dates' = [price_dates EXCEPT ![TheStock] = StoredDates(price_rows')]
    /\ UNCHANGED <<is_active, tagged, history_records_count, clock_vars,
                   oracle_out, task_vars, kis_client, shared_vars, broker_vars, ma90_price,
                   history_updated_at, writers>>

\* a stock as collections have left it, and sessions that are not collecting
InitIngest ==
    /\ TasksIdle
    /\ kis_client = "KISClient"
    /\ BrokerIdle
    /\ SharedIdle
    /\ \E n \in InitRowCounts :
          /\ price_rows = InitialRows(n)
          /\ history_records_count =
                 [s \in Stocks |-> IF s = TheStock THEN n ELSE 0]
    /\ price_dates =
           [s \in Stocks |-> IF s = TheStock THEN StoredDates(price_rows) ELSE {}]
    /\ ma90_price = _calculate_and_update_ma90(price_rows)
    /\ history_updated_at = 0
    /\ writers = [w \in Writers |-> IdleWriter]
    /\ n_collect = 0

NextIngest ==
    \/ \E w \in Writers, r \in BrokerResponses : CollectBegin(w, r)
    \/ \E w \in Writers : SaveCommit(w)
    \/ \E w \in Writers : CountAndMa90(w)
    \/ \E w \in Writers, o \in {"updated", "raised"} : UpdateStock(w, o)
    \/ \E page \in NaverResponses : crawl_stock_price_history(page)

SpecIngest == InitIngest /\ [][NextIngest]_vars

\* ------------------------------------- specification of the Signal table
\* One eligible US stock (TheStock) with 60, for the MA analysis 200, rows or
\* more inside the days analysed; the model follows its latest rows.

\* sessions that analyse the stock
NumAnalysts == 2

Analysts == 1..NumAnalysts

\* analysis runs the sessions start
MaxAnalyses == 3

\* the latest rows of price history that are followed
MaxBars == 3

\* days the clock moves on
MaxDays == 1

\* analyze_and_store_signals(days=...): start_date = date.today() - days
AnalysisDays == 2

\* df.index[-5:] and df.tail(5): the rows a recent signal may lie on
RECENT_BARS == 5

\* timedelta(days=10): the age up to which an approaching signal is checked
CONFIRM_DAYS == 10

\* range(signal_idx + 1, min(signal_idx + 4, len(all_dates)))
CONFIRM_BARS == 3

\* MASignalAnalyzer.MA_PERIODS
MA_PERIODS == <<20, 50, 200>>

\* Stock.current_price when a run reads the stock
Prices == {10, 11}

\* close_price of a row
ClosePrice(bar) == 10

\* what the strategies find on a row: nothing; a rising close within 3% under
\* the falling trendline; a close above the trendline after a close under it;
\* a close that crosses MA20 upwards; a close that crosses MA20 and MA50
BarKinds == {"quiet", "approaching", "breakout", "ma20_up", "ma20_50_up"}

\* the two rows the stock starts with, and the row a collection adds
InitialBars ==
    {"quiet", "breakout"} \X {"approaching", "ma20_up", "ma20_50_up"}
NewBarKinds == {"quiet", "breakout"}

\* the strategies whose rows the trendline analyzer owns
TRENDLINE_STRATEGIES ==
    {"descending_trendline_breakout", "approaching_breakout", "pullback_buy"}

\* MASignalAnalyzer.STRATEGY_NAMES
STRATEGY_NAMES ==
    {"golden_cross", "death_cross", "ma_support", "ma_resistance",
     "ma_breakout_up", "ma_breakout_down", "ma_bullish_alignment",
     "ma_bearish_alignment"}

Strategies(kind) == IF kind = "ma" THEN STRATEGY_NAMES ELSE TRENDLINE_STRATEGIES

\* the StockPriceHistory rows with date >= start_date, oldest first
PriceHistory(t) == SelectSeq(bars, LAMBDA b : b.date >= t - AnalysisDays)

\* calculate_trendline fits the line on the indices of the rows read: the
\* line over the same lower highs has its intercept at the first row read.
\* The line falls by one a day.
trendline_intercept(price_history) == 2 * Today - price_history[1].date

\* high_price > slope * i + intercept
HighAbove(bar) == bar.kind = "breakout"

\* the MA periods the close of a row crosses upwards (_detect_ma_breakouts)
CrossedUp(bar) ==
    CASE bar.kind = "ma20_up" -> {20}
      [] bar.kind = "ma20_50_up" -> {20, 50}
      [] OTHER -> {}

\* json of the details of a signal
Details(intercept, ma_period, confirmed) ==
    [trendline_intercept |-> intercept, ma_period |-> ma_period,
     breakout_confirmed |-> confirmed, breakout_date |-> NULL]

\* round(((current_price - signal_price) / signal_price) * 100, 2)
ReturnPercent(current_price, signal_price) ==
    ((current_price - signal_price) * 100) \div signal_price

\* a stock other than TheStock that has Signal rows of its own
OtherStock == CHOOSE s \in Stocks : s # TheStock

\* a signal_info dict, with the stock_id _save_signals is called with
SignalInfo(signal_type, strategy_name, bar, signal_price, current_price, details) ==
    [stock_id |-> TheStock,
     signal_type |-> signal_type, strategy_name |-> strategy_name,
     signal_date |-> bar.date, signal_price |-> signal_price,
     current_price |-> current_price,
     return_percent |-> ReturnPercent(current_price, signal_price),
     details |-> details]

MapSeq(s, F(_)) == [i \in 1..Len(s) |-> F(s[i])]

\* the last RECENT_BARS rows
RecentBars(price_history) ==
    SubSeq(price_history, Max({1, Len(price_history) - RECENT_BARS + 1}),
           Len(price_history))

\* _run_signal_analysis(price_history, stock.current_price) of both
\* analyzers.  SignalAnalyzer (lines 379-419, 476-521): a breakout signal for
\* every row with buy_signal, an approaching signal for every such row among
\* the last five.  MASignalAnalyzer._detect_ma_breakouts (lines 492-561): for
\* every period, a signal for each of the last five rows whose close crosses
\* it.
_run_signal_analysis(kind, price_history, current_price) ==
    IF kind = "ma"
    THEN LET Of(period) ==
                 MapSeq(SelectSeq(RecentBars(price_history),
                                  LAMBDA b : period \in CrossedUp(b)),
                        LAMBDA b : SignalInfo("buy", "ma_breakout_up", b,
                                       ClosePrice(b), current_price,
                                       Details(NULL, period, "absent")))
         IN  Of(MA_PERIODS[1]) \o Of(MA_PERIODS[2]) \o Of(MA_PERIODS[3])
    ELSE LET intercept == trendline_intercept(price_history) IN
         MapSeq(SelectSeq(price_history, LAMBDA b : b.kind = "breakout"),
                LAMBDA b : SignalInfo("buy", "descending_trendline_breakout",
                               b, ClosePrice(b), current_price,
                               Details(intercept, NULL, "absent")))
         \o
         MapSeq(SelectSeq(RecentBars(price_history),
                          LAMBDA b : b.kind = "approaching"),
                LAMBDA b : SignalInfo("approaching", "approaching_breakout",
                               b, ClosePrice(b), current_price,
                               Details(intercept, NULL, "None")))

Key(x) == <<x.stock_id, x.signal_date, x.strategy_name>>

\* a delete that filters on the stock only
DeleteAllSignals(table, kind) ==
    {x \in table : x.stock_id # TheStock}

\* _analyze_stock step 1 (signal_analyzer lines 241-246, ma_signal_analyzer
\* lines 255-260): the rows of the stock with one of the analyzer's
\* strategy names are deleted
DeleteSignals(table, kind) ==
    {x \in table : \/ x.stock_id # TheStock
                   \/ x.strategy_name \notin Strategies(kind)}

\* _check_breakout_confirmation, lines 291-340, for one approaching signal
\* that is not resolved yet and whose date is among the rows read
ResolvedDetails(x, price_history) ==
    LET signal_idx == CHOOSE i \in 1..Len(price_history) :
                          price_history[i].date = x.signal_date
        above == {i \in (signal_idx + 1)..Min({signal_idx + CONFIRM_BARS,
                                                Len(price_history)}) :
                     HighAbove(price_history[i])}
    IN  IF above # {}
        THEN [x.details EXCEPT !.breakout_confirmed = "true",
                               !.breakout_date = price_history[Min(above)].date]
        ELSE [x.details EXCEPT !.breakout_confirmed = "false"]

\* _check_breakout_confirmation (lines 269-344) on the table as it is read
\* after step 1, with the flush of the commit of step 4
_check_breakout_confirmation(table, price_history, t, stamp) ==
    {IF /\ x.stock_id = TheStock
        /\ x.strategy_name = "approaching_breakout"
        /\ x.signal_date >= t - CONFIRM_DAYS
        /\ x.details.breakout_confirmed = "None"
        /\ \E i \in 1..Len(price_history) : price_history[i].date = x.signal_date
     THEN [x EXCEPT !.details = ResolvedDetails(x, price_history),
                    !.updated_at = stamp]
     ELSE x : x \in table}

\* the session of a run that is not inside _analyze_stock
IdleAnalyst(outcome) ==
    [pc |-> "idle", kind |-> "", stamp |-> 0, current_price |-> 0,
     price_history |-> <<>>, emitted |-> <<>>, adds |-> <<>>, updates |-> {},
     outcome |-> outcome]

\* _save_signals, the queries (signal_analyzer lines 538-542): the emitted
\* signals whose key has no row in the table (autoflush is off: a row added
\* by this session is not found), to be added
SignalsToAdd(table, emitted) ==
    SelectSeq(emitted, LAMBDA e : \A x \in table : Key(x) # Key(e))

\* ... and the rows found, each with the signal_info it is updated from
SignalsToUpdate(table, emitted) ==
    {u \in [row : table, info : {emitted[i] : i \in 1..Len(emitted)}] :
        Key(u.row) = Key(u.info)}

\* no constraint on the table
NoSignalConstraint(table, adds) == TRUE

\* UniqueConstraint('stock_id', 'signal_date', 'strategy_name') of
\* StockSignal (models.py line 232): the INSERTs of a flush are accepted
unique_stock_signal(table, adds) ==
    /\ \A i \in 1..Len(adds) : \A x \in table : Key(x) # Key(adds[i])
    /\ \A i, j \in 1..Len(adds) : Key(adds[i]) = Key(adds[j]) => i = j

\* the row a StockSignal(...) of _save_signals becomes (lines 550-561); n
\* tells rows of one key apart
NewSignal(e, n, stamp) ==
    [stock_id |-> e.stock_id,
     signal_date |-> e.signal_date, strategy_name |-> e.strategy_name, n |-> n,
     signal_type |-> e.signal_type, signal_price |-> e.signal_price,
     current_price |-> e.current_price, return_percent |-> e.return_percent,
     details |-> e.details, is_active |-> TRUE, analyzed_at |-> stamp,
     updated_at |-> stamp]

\* the table after the flush of a session: its UPDATEs (lines 544-548) and
\* its INSERTs
Flush(table, adds, updates, stamp) ==
    LET Updated(x) ==
            IF \E u \in updates : u.row = x
            THEN LET u == CHOOSE u \in updates : u.row = x
                 IN  [x EXCEPT !.current_price = u.info.current_price,
                               !.return_percent = u.info.return_percent,
                               !.updated_at = stamp]
            ELSE x
        Copies(i) == Cardinality({x \in table : Key(x) = Key(adds[i])})
                     + Cardinality({j \in 1..(i - 1) : Key(adds[j]) = Key(adds[i])})
    IN  {Updated(x) : x \in table}
        \cup {NewSignal(adds[i], Copies(i) + 1, stamp) : i \in 1..Len(adds)}

\* _save_signals and the commit that follows, nothing in between
_save_signals(table, emitted, stamp) ==
    LET adds == SignalsToAdd(table, emitted)
        updates == SignalsToUpdate(table, emitted)
    IN  IF unique_stock_signal(table, adds)
        THEN Flush(table, adds, updates, stamp)
        ELSE table

\* _get_stock_ids_by_mode (signal_analyzer lines 205-217, ma_signal_analyzer
\* lines 220-233) for the eligible stock: with delta_only the filter is built
\* on Stock.signal_analyzed_at and Stock.history_updated_at, attributes the
\* Stock model does not define, and the query raises AttributeError
_get_stock_ids_by_mode(kind, force_full) ==
    IF force_full THEN [raised |-> FALSE, stock_ids |-> {TheStock}]
    ELSE [raised |-> TRUE, stock_ids |-> {}]

\* the table after a whole run on the stock on day t, no other session in
\* between: _get_stock_ids_by_mode raises in delta mode; _analyze_stock
\* (signal_analyzer lines 219-267, ma_signal_analyzer lines 235-278)
RunAlone(table, kind, force_full, t, current_price, stamp) ==
    IF TheStock \notin _get_stock_ids_by_mode(kind, force_full).stock_ids
    THEN table
    ELSE LET price_history == PriceHistory(t)
             deleted == DeleteSignals(table, kind)
             checked == IF kind = "ma" THEN deleted
                        ELSE _check_breakout_confirmation(
                                 deleted, price_history, t, stamp)
         IN  _save_signals(checked,
                 _run_signal_analysis(kind, price_history, current_price),
                 stamp)

\* a session enters analyze_and_store_signals for the stock.  In delta mode
\* _get_stock_ids_by_mode builds its filter on Stock.signal_analyzed_at,
\* which the Stock model does not define: AttributeError, no stock is
\* analysed.  Otherwise _analyze_stock reads the stock and its price history
\* and deletes the signals of its strategies, with a commit.
AnalyzeBegin(r, kind, force_full, current_price) ==
    /\ analysts[r].pc = "idle"
    /\ n_analyses < MaxAnalyses
    /\ n_analyses' = n_analyses + 1
    /\ IF _get_stock_ids_by_mode(kind, force_full).raised
       THEN /\ analysts' = [analysts EXCEPT ![r] = IdleAnalyst("AttributeError")]
            /\ UNCHANGED signals
       ELSE /\ signals' = DeleteSignals(signals, kind)
            /\ analysts' = [analysts EXCEPT ![r] =
                  [IdleAnalyst("") EXCEPT
                      !.pc = "begun", !.kind = kind,
                      !.stamp = n_analyses + 1,
                      !.current_price = current_price,
                      !.price_history = PriceHistory(today)]]
    /\ UNCHANGED <<runner_vars, kis_client, ingest_vars, broker_vars,
                   cache_vars, trend_vars, bars, signal_analyzed_at>>

\* _analyze_stock steps 2 to 4: the trendline analyzer checks the approaching
\* signals it finds; the signals are computed; stock.signal_analyzed_at is
\* assigned, an attribute the Stock model does not map, and the commit
\* writes what the check changed.  When the computation raises,
\* _run_signal_analysis logs the exception and returns [] (signal_analyzer
\* lines 523-525, ma_signal_analyzer lines 326-330).
AnalyzeSignals(r, raised) ==
    /\ analysts[r].pc = "begun"
    /\ LET a == analysts[r]
           found == IF raised THEN <<>>
                    ELSE _run_signal_analysis(a.kind, a.price_history,
                                              a.current_price)
       IN  /\ signals' = IF a.kind = "ma" THEN signals
                         ELSE _check_breakout_confirmation(
                                  signals, a.price_history, today, a.stamp)
           /\ analysts' = [analysts EXCEPT ![r] =
                 IF found = <<>> THEN IdleAnalyst("no_signals")
                 ELSE [a EXCEPT !.pc = "saving", !.emitted = found,
                                !.price_history = <<>>]]
    /\ UNCHANGED <<runner_vars, kis_client, ingest_vars, broker_vars,
                   cache_vars, trend_vars, bars, n_analyses, signal_analyzed_at>>

\* _save_signals, the loop over the signals: each key is looked up, the row
\* found is changed in the session, a signal without row is added to it
SaveSignals(r) ==
    /\ analysts[r].pc = "saving"
    /\ analysts' = [analysts EXCEPT ![r] =
          [@ EXCEPT !.pc = "flushing",
                    !.adds = SignalsToAdd(signals, analysts[r].emitted),
                    !.updates = SignalsToUpdate(signals, analysts[r].emitted)]]
    /\ UNCHANGED <<runner_vars, kis_client, ingest_vars, broker_vars,
                   cache_vars, trend_vars, signals, bars, n_analyses, signal_analyzed_at>>

\* the commit that follows: ma_signal_analyzer line 689, signal_analyzer
\* lines 95 or 122 (the next commit of the driver).  An INSERT the constraint
\* rejects and an UPDATE of a row that is gone raise, and the flush is
\* rolled back.
CommitSignals(r) ==
    /\ analysts[r].pc = "flushing"
    /\ LET a == analysts[r] IN
       IF ~unique_stock_signal(signals, a.adds)
       THEN /\ analysts' = [analysts EXCEPT ![r] = IdleAnalyst("IntegrityError")]
            /\ UNCHANGED signals
       ELSE IF \E u \in a.updates : u.row \notin signals
       THEN /\ analysts' = [analysts EXCEPT ![r] = IdleAnalyst("StaleDataError")]
            /\ UNCHANGED signals
       ELSE /\ analysts' = [analysts EXCEPT ![r] = IdleAnalyst("saved")]
            /\ signals' = Flush(signals, a.adds, a.updates, a.stamp)
    /\ UNCHANGED <<runner_vars, kis_client, ingest_vars, broker_vars,
                   cache_vars, trend_vars, bars, n_analyses, signal_analyzed_at>>

\* a collection: _save_price_history commits the row of today for the
\* stock and the UPDATE of kis_history_crawler lines 189-208 sets
\* history_updated_at
NewBar(kind) ==
    /\ kind \in NewBarKinds
    /\ Len(bars) < MaxBars
    /\ bars[Len(bars)].date < today
    /\ bars' = Append(bars, [date |-> today, kind |-> kind])
    /\ history_updated_at' = today
    /\ UNCHANGED <<runner_vars, kis_client, price_rows, ma90_price, writers,
                   n_collect, broker_vars, cache_vars, trend_vars, signals, analysts,
                   n_analyses, signal_analyzed_at>>

\* date.today() moves on
NextDay ==
    /\ today < Today + MaxDays
    /\ today' = today + 1
    /\ UNCHANGED <<stock_vars, hour, oracle_out, task_vars, kis_client,
                   ingest_vars, broker_vars, shared_vars>>

\* the Signal rows of the other stock: an approaching signal that is not
\* resolved and an MA signal, both of yesterday
OtherSignals ==
    {NewSignal([SignalInfo("approaching", "approaching_breakout",
                           [date |-> Today - 1], 10, 10,
                           Details(Today, NULL, "None"))
                   EXCEPT !.stock_id = OtherStock], 1, 0),
     NewSignal([SignalInfo("buy", "ma_breakout_up", [date |-> Today - 1],
                           10, 10, Details(NULL, 20, "absent"))
                   EXCEPT !.stock_id = OtherStock], 1, 0)}

\* the Signal rows of the stock
StockSignals == {x \in signals : x.stock_id = TheStock}

\* the stock has rows up to yesterday and no signal yet; no session is
\* inside an analysis
InitSignal ==
    /\ RunnerIdle
    /\ kis_client = "KISClient"
    /\ IngestIdle
    /\ BrokerIdle
    /\ cache_file = <<>>
    /\ clients = <<>>
    /\ token_requests = 0
    /\ TrendIdle
    /\ signals = OtherSignals
    /\ analysts = [r \in Analysts |-> IdleAnalyst("")]
    /\ \E k \in InitialBars :
          bars = <<[date |-> Today - 2, kind |-> k[1]],
                   [date |-> Today - 1, kind |-> k[2]]>>
    /\ n_analyses = 0
    /\ signal_analyzed_at = [s \in Stocks |-> NULL]

NextSignal ==
    \/ \E r \in Analysts, kind \in {"signal", "ma"}, force_full \in BOOLEAN,
          current_price \in Prices :
          AnalyzeBegin(r, kind, force_full, current_price)
    \/ \E r \in Analysts, raised \in BOOLEAN : AnalyzeSignals(r, raised)
    \/ \E r \in Analysts : SaveSignals(r)
    \/ \E r \in Analysts : CommitSignals(r)
    \/ \E kind \in NewBarKinds : NewBar(kind)
    \/ NextDay

SpecSignal == InitSignal /\ [][NextSignal]_vars

\* --------------------------------- specification of the trendline functions
\* technical_indicators.py: the swing highs of a DataFrame, the lower highs
\* among them, the line fitted on these and the bars that break it.  Row i of
\* the DataFrame (iloc[i], from 0) is df[i + 1].

\* swing_window=5 and min_touches=3 of the calls in signal_analyzer
SWING_WINDOW == 5
MIN_TOUCHES == 3

\* the swing highs of the DataFrames the functions are given
NumSwings == 4

\* their high prices are 1..MaxPrice, the highs of the rows between are 0
MaxPrice == 4

\* the close prices of the last rows are 0..MaxClose
MaxClose == 2

\* the last rows, whose close prices vary
TailBars == 3

\* row i of the DataFrames: every (SWING_WINDOW + 1)-th row is a peak
PeakNumber(i) == (i + 1) \div (SWING_WINDOW + 1)
IsPeak(i) ==
    /\ (i + 1) % (SWING_WINDOW + 1) = 0
    /\ PeakNumber(i) \in 1..NumSwings

\* the peaks and SWING_WINDOW rows after the last one
FrameLen == NumSwings * (SWING_WINDOW + 1) + SWING_WINDOW

\* the DataFrames: the highs of the peaks and the closes of the last rows
\* are chosen, every other close is 0
Frames ==
    {[k \in 1..FrameLen |->
         [high |-> IF IsPeak(k - 1) THEN peaks[PeakNumber(k - 1)] ELSE 0,
          close |-> IF k > FrameLen - TailBars
                    THEN closes[k - (FrameLen - TailBars)] ELSE 0]] :
       peaks \in [1..NumSwings -> 1..MaxPrice],
       closes \in [1..TailBars -> 0..MaxClose]}

\* df[col].iloc[i]
iloc(frame, i) == frame[i + 1]

\* find_swing_highs_lows, the swing highs: the rows from window to
\* len(df) - window - 1 whose high is above every high of the window rows
\* before and after; tuples (index, price)
find_swing_highs_lows(frame, window) ==
    LET is_swing_high(i) ==
            \A j \in (i - window)..(i + window) :
               j # i => ~(iloc(frame, j).high >= iloc(frame, i).high)
        rows == [k \in 1..(Len(frame) - 2 * window) |-> window + k - 1]
    IN  MapSeq(SelectSeq(rows, is_swing_high),
               LAMBDA i : <<i, iloc(frame, i).high>>)

\* find_lower_highs, the loop of lines 520-522 from swing high j on: a swing
\* high under the last one taken is taken
RECURSIVE current_sequence(_, _, _)
current_sequence(swing_highs, taken, j) ==
    IF j > Len(swing_highs) THEN taken
    ELSE current_sequence(swing_highs,
             IF swing_highs[j][2] < taken[Len(taken)][2]
             THEN Append(taken, swing_highs[j]) ELSE taken,
             j + 1)

\* the loop of lines 517-525 from swing high `start` on: a longer sequence
\* replaces the best one
RECURSIVE best_sequence(_, _, _)
best_sequence(swing_highs, best, start) ==
    IF start > Len(swing_highs) THEN best
    ELSE LET current == current_sequence(swing_highs, <<swing_highs[start]>>,
                                         start + 1)
         IN  best_sequence(swing_highs,
                           IF Len(current) > Len(best) THEN current ELSE best,
                           start + 1)

find_lower_highs(swing_highs, min_count) ==
    IF Len(swing_highs) < min_count THEN <<>>
    ELSE LET best == best_sequence(swing_highs, <<>>, 1)
         IN  IF Len(best) >= min_count THEN best ELSE <<>>

RECURSIVE SumSeq(_)
SumSeq(s) == IF s = <<>> THEN 0 ELSE s[1] + SumSeq(Tail(s))

\* calculate_trendline: np.polyfit(x, y, 1), the least-squares line, for two
\* points or more.  slope and intercept are kept exact, as numerators over
\* the common denominator q > 0.
calculate_trendline(points) ==
    LET n == Len(points)
        sx == SumSeq(MapSeq(points, LAMBDA pt : pt[1]))
        sy == SumSeq(MapSeq(points, LAMBDA pt : pt[2]))
        sxx == SumSeq(MapSeq(points, LAMBDA pt : pt[1] * pt[1]))
        sxy == SumSeq(MapSeq(points, LAMBDA pt : pt[1] * pt[2]))
        d == n * sxx - sx * sx
        m == n * sxy - sx * sy
    IN  [slope |-> n * m, intercept |-> d * sy - m * sx, q |-> n * d]

\* slope * i + intercept, times q
TrendlineValue(trendline, i) == trendline.slope * i + trendline.intercept

\* a bar is marked whenever its close is above the line
Breakout_NoPrevBelow(frame, trendline, i) ==
    iloc(frame, i).close * trendline.q > TrendlineValue(trendline, i)

\* lines 600-609: prev_below and current_above
Breakout(frame, trendline, i) ==
    LET prev_below == iloc(frame, i - 1).close * trendline.q
                         <= TrendlineValue(trendline, i - 1)
        current_above == iloc(frame, i).close * trendline.q
                            > TrendlineValue(trendline, i)
    IN  prev_below /\ current_above

\* generate_descending_trendline_breakout_signals: the buy_signal column
generate_descending_trendline_breakout_signals(frame, swing_window, min_touches) ==
    LET none == [k \in 1..Len(frame) |-> 0]
        swing_highs == find_swing_highs_lows(frame, swing_window)
        found == find_lower_highs(swing_highs, min_touches)
        trendline == calculate_trendline(found)
        last_lower_high_idx == found[Len(found)][1]
    IN  IF Len(swing_highs) < min_touches THEN none
        ELSE IF Len(found) < min_touches THEN none
        ELSE IF trendline.slope >= 0 THEN none
        ELSE [k \in 1..Len(frame) |->
                 IF /\ k - 1 \in (last_lower_high_idx + 1)..(Len(frame) - 1)
                    /\ Breakout(frame, trendline, k - 1)
                 THEN 1 ELSE 0]

\* find_lower_highs is called with the swing highs of the DataFrame
FindLowerHighs ==
    /\ ~lower_highs.called
    /\ lower_highs' =
          [called |-> TRUE,
           returned |-> find_lower_highs(
                            find_swing_highs_lows(df, SWING_WINDOW), MIN_TOUCHES)]
    /\ UNCHANGED <<runner_vars, kis_client, ingest_vars, broker_vars,
                   cache_vars, signal_vars, df, buy_signals>>

\* _run_signal_analysis calls the breakout function on the DataFrame
GenerateSignals ==
    /\ buy_signals = <<>>
    /\ buy_signals' = generate_descending_trendline_breakout_signals(
                          df, SWING_WINDOW, MIN_TOUCHES)
    /\ UNCHANGED <<runner_vars, kis_client, ingest_vars, broker_vars,
                   cache_vars, signal_vars, df, lower_highs>>

InitTrend ==
    /\ RunnerIdle
    /\ kis_client = "KISClient"
    /\ IngestIdle
    /\ BrokerIdle
    /\ cache_file = <<>>
    /\ clients = <<>>
    /\ token_requests = 0
    /\ SignalIdle
    /\ df \in Frames
    /\ lower_highs = NotCalled
    /\ buy_signals = <<>>

NextTrend ==
    \/ FindLowerHighs
    \/ GenerateSignals

SpecTrend == InitTrend /\ [][NextTrend]_vars

\* ------------------------------------------------------------- properties

Terminal == {"completed", "failed", "cancelled"}

\* task_type of the Task row a job's driver inserts
JobType(j) ==
    CASE j.kind \in {"collect", "retry"} -> "history_collection"
      [] j.kind = "signal" -> "signal_analysis"
      [] OTHER -> "ma_signal_analysis"

\* the job a step has submitted, if it submitted one
Launched == IF next_id' = next_id + 1 THEN jobs'[next_id] ELSE NoJob

\* C1: once cancel has set a Task row to cancelled, no later step (a driver's
\* finalization, a failure handler) changes the row's status.
C1_CancelledStaysCancelled ==
    [][\A t \in TaskIds :
          (tasks[t] # NoRow /\ tasks[t].status = "cancelled")
              => tasks'[t].status = "cancelled"]_vars

\* C1 fails without any exception: a Task that cancel had cancelled is completed
C1_Witness ==
    \E t \in TaskIds :
        cancel_mark[t] # NULL /\ tasks[t].status = "completed" /\ faults = 0

\* C2: after cancel has set the Task row to cancelled, at most one more unit
\* (stock) of the job completes, whatever the job's type.
C2_AtMostOneUnitAfterCancel ==
    \A t \in TaskIds :
        cancel_mark[t] # NULL => UnitsCompleted(t) - cancel_mark[t] <= 1

\* C2 fails for a signal analysis run by a thread: two units after the cancel
C2_Witness ==
    \E t \in TaskIds :
        /\ jobs[t] # NoJob /\ jobs[t].kind = "signal" /\ jobs[t].runner = "thread"
        /\ cancel_mark[t] = 0 /\ UnitsCompleted(t) = 2 /\ faults = 0

\* C3: cancel on a running Task sets status cancelled and records
\* completed_at; on a completed, failed or cancelled Task it changes no field
\* and answers "not running"; on an unknown id it answers NotFound and changes
\* nothing.
C3_CancelSemantics ==
    /\ [](\A t \in TaskIds :
            cancel_task_result(t) =
                IF tasks[t] = NoRow THEN "NotFound"
                ELSE IF tasks[t].status \in Terminal THEN "not_running"
                ELSE "cancelled")
    /\ [][\A t \in TaskIds : cancel_task(t) =>
             IF tasks[t] # NoRow /\ tasks[t].status = "running"
             THEN /\ tasks'[t].status = "cancelled"
                  /\ tasks'[t].completed_at
                  /\ \A u \in TaskIds \ {t} : tasks'[u] = tasks[u]
             ELSE UNCHANGED <<tasks, logs, stock_vars>>]_vars

\* C3 happens: a Task was cancelled while another Task is completed
C3_Witness ==
    \E t, u \in TaskIds :
        /\ tasks[t] # NoRow /\ tasks[t].status = "cancelled"
        /\ tasks[t].completed_at /\ cancel_mark[t] # NULL
        /\ tasks[u] # NoRow /\ tasks[u].status = "completed"
        /\ cancel_task_result(u) = "not_running"

\* C4: once a launch entry point has returned a task_id, get(task_id) finds
\* the Task row, also while the job is still queued.
C4_RowExistsWhenLaunchReturns ==
    \A t \in Returned : get_task_progress(t) = "Task"

\* C5: no launched job is left, after its code has stopped, without a Task
\* row or with a row that is not completed, failed or cancelled.
C5_StoppedJobHasTerminalRow ==
    \A t \in Returned :
        Stopped(t) => tasks[t] # NoRow /\ tasks[t].status \in Terminal

\* C5 fails without any exception: a launched job has returned, no Task row
C5_Witness ==
    \E t \in Returned :
        jobs[t].pc = "done" /\ tasks[t] = NoRow /\ faults = 0

\* C6: once the soft time limit has fired in a job whose Task is running, the
\* job processes no further stock and its Task row is failed with the
\* time-limit message.
C6_TimeLimitFailsTheTask ==
    \A t \in TaskIds :
        (jobs[t] # NoJob /\ jobs[t].tl_fired /\ tasks[t] # NoRow
            /\ tasks[t].status # "cancelled")
        => /\ ~Running(t)
           /\ tasks[t].status = "failed"
           /\ tasks[t].error_message = "time limit 59 min"

\* C6 fails to the end: the time limit fired and the Task is completed
C6_Witness ==
    \E t \in TaskIds :
        /\ jobs[t] # NoJob /\ jobs[t].tl_fired /\ jobs[t].pc = "done"
        /\ tasks[t] # NoRow /\ tasks[t].status = "completed"

\* C7: a unit that ended in the handler of the per-stock try has a log row
\* with status failed and the error message, its failure is counted once,
\* and the job goes on.
C7_UnitFailureIsLoggedOnce ==
    \A t \in TaskIds :
        (jobs[t] # NoJob /\ jobs[t].kind \in {"collect", "retry"}) =>
            /\ \A s \in jobs[t].raised :
                   /\ logs[<<t, s>>].status = "failed"
                   /\ logs[<<t, s>>].error_message # ""
            /\ jobs[t].pc = "loop" =>
                   jobs[t].counters.success + jobs[t].counters.failed
                       = UnitsCompleted(t)

\* C7 fails to the end: the job is completed, the log row of a unit that ended
\* in the handler is still running, and two failures are counted for one stock
C7_Witness ==
    \E t \in TaskIds :
        /\ tasks[t] # NoRow /\ tasks[t].status = "completed"
        /\ tasks[t].total_items = 1 /\ tasks[t].failed_count = 2
        /\ \E s \in jobs[t].raised : logs[<<t, s>>].status = "running"

\* C8 as stated: retry_failed launches a job whose universe is exactly the
\* stocks with a failed log row under task_id, the new Task's total_items is
\* the size of that set, and no job is launched when there is no failed row.
C8_RetryUniverseIsFailedSet ==
    [][\A t \in TaskIds :
          /\ retry_failed_stocks(t) =>
                IF FailedStocks(t) = {} THEN Launched = NoJob
                ELSE /\ Launched # NoJob
                     /\ Launched.kind = "retry"
                     /\ Launched.stock_ids = FailedStocks(t)
          /\ (jobs[t] # NoJob /\ jobs[t].kind = "retry"
                 /\ tasks[t] = NoRow /\ tasks'[t] # NoRow)
             => tasks'[t].total_items = Cardinality(jobs[t].stock_ids)]_vars

\* C8, amended: the universe of the job retry_failed launches is the set of
\* stocks that have a failed log row under task_id and are active, at the
\* request and again when the job starts; total_items is the size of that
\* set; no job is launched when no failed row belongs to an active stock.
C8_RetryUniverseIsActiveFailedSet ==
    [][\A t \in TaskIds :
          /\ retry_failed_stocks(t) =>
                LET wanted == {s \in Stocks : logs[<<t, s>>].status = "failed"
                                              /\ is_active[s]}
                IN  IF wanted = {} THEN Launched = NoJob
                    ELSE /\ Launched # NoJob
                         /\ Launched.kind = "retry"
                         /\ Launched.stock_ids = wanted
                         /\ tasks'[next_id] = NoRow
          /\ (jobs[t] # NoJob /\ jobs[t].kind = "retry"
                 /\ tasks[t] = NoRow /\ tasks'[t] # NoRow)
             => LET universe == {s \in jobs[t].stock_ids : is_active[s]}
                IN  /\ universe # {}
                    /\ universe \subseteq FailedStocks(jobs[t].origin)
                    /\ tasks'[t].total_items = Cardinality(universe)
                    /\ jobs'[t].pc = "loop" =>
                           {jobs'[t].stocks[k] : k \in 1..Len(jobs'[t].stocks)}
                               = universe]_vars

\* C8 happens: a retry job has started over the failed stocks of its origin,
\* one of which was dropped because it is no longer active
C8_Witness ==
    \E t \in TaskIds :
        /\ jobs[t] # NoJob /\ jobs[t].kind = "retry"
        /\ tasks[t] # NoRow /\ tasks[t].total_items = 1
        /\ \E s \in FailedStocks(jobs[t].origin) : ~is_active[s]

\* C9: restart on a Task that is not running, of any task_type, launches one
\* job of the same type under a new id and leaves the original row unchanged;
\* on a running Task it launches nothing.
C9_RestartAnyType ==
    /\ [](\A t \in TaskIds :
            tasks[t] # NoRow =>
                restart_task_result(t) =
                    IF tasks[t].status = "running" THEN "still_running"
                    ELSE "restarted")
    /\ [][\A t \in TaskIds :
             (restart_task(t) /\ tasks[t] # NoRow) =>
                 IF tasks[t].status = "running" THEN Launched = NoJob
                 ELSE /\ Launched # NoJob
                      /\ JobType(Launched) = tasks[t].task_type
                      /\ next_id # t
                      /\ tasks'[t] = tasks[t]]_vars

\* C9 fails for a completed MA analysis: restart answers HTTP 400
C9_Witness ==
    \E t \in TaskIds :
        /\ tasks[t] # NoRow /\ tasks[t].task_type = "ma_signal_analysis"
        /\ tasks[t].status = "completed"
        /\ restart_task_result(t) = "unknown_task_type"

\* C10: the oracle answers full with no last date when the cached count is
\* unset, 0 or below 60 or no row is stored; otherwise skip when the newest
\* stored date is on or after the last trading day and incremental when it is
\* before, both with that date; and it changes no stored state.
C10_OracleAnswer ==
    /\ [](oracle_out # NoAnswer =>
            LET s == oracle_out.stock
                a == oracle_out.answer
                count == history_records_count[s]
                dates == price_dates[s]
                expected ==
                    IF count = NULL \/ count = 0 \/ count < MIN_RECORDS
                       \/ dates = {}
                    THEN "full"
                    ELSE IF Max(dates) >= _get_last_trading_day(today, hour)
                    THEN "skip" ELSE "incremental"
            IN  /\ a.mode = expected
                /\ a.should_collect = (a.mode # "skip")
                /\ a.last_date = IF a.mode = "full" THEN NULL ELSE Max(dates))
    /\ [][UNCHANGED <<stock_vars, tasks, logs>>]_vars

\* C10 happens: the oracle answered incremental for a stock with enough rows
C10_Witness ==
    /\ oracle_out # NoAnswer
    /\ oracle_out.answer.mode = "incremental"
    /\ oracle_out.answer.last_date = Max(price_dates[oracle_out.stock])
    /\ history_records_count[oracle_out.stock] >= MIN_RECORDS

C18_UnconfiguredJobFailsAtStart ==
    kis_client = "None" =>
        \A t \in TaskIds :
            (jobs[t] # NoJob /\ jobs[t].kind \in {"collect", "retry"}) =>
                /\ \A s \in Stocks : logs[<<t, s>>] = NoLog
                /\ tasks[t] # NoRow =>
                      /\ tasks[t].success_count = 0
                      /\ tasks[t].failed_count = 0
                      /\ tasks[t].status \in {"completed", "failed"} =>
                            /\ tasks[t].status = "failed"
                            /\ tasks[t].error_message = "KIS API not configured"

\* C18 fails without any exception: the job ran over its stocks, logged one
\* as failed for the missing configuration, and its Task is completed
C18_Witness ==
    \E t \in TaskIds, s \in Stocks :
        /\ kis_client = "None" /\ faults = 0
        /\ jobs[t] # NoJob /\ jobs[t].kind = "collect"
        /\ tasks[t] # NoRow /\ tasks[t].status = "completed"
        /\ tasks[t].failed_count >= 1
        /\ logs[<<t, s>>] # NoLog
        /\ logs[<<t, s>>].status = "failed"
        /\ logs[<<t, s>>].error_message = "KIS API not configured"

\* C19: when the broker answers an OHLCV request with a rt_cd other than "0",
\* or the request fails with a network/HTTP error, the unit's result is a
\* failure whose error carries the broker's msg1, respectively the transport
\* error.
C19_UpstreamErrorReachesCaller ==
    [][(sent' # sent /\ sent'.answer # "output2")
          => /\ ~unit_result'.success
             /\ unit_result'.error = sent'.answer]_vars

\* C19 fails: the broker rejected the request with a msg1 and the unit's
\* result carries the generic message
C19_Witness ==
    /\ sent.at # NULL
    /\ sent.answer = "msg1: EGW00201 rate limit"
    /\ ~unit_result.success
    /\ unit_result.error = "No data received from API"

ReportsSuccess(w) ==
    /\ writers[w].pc = "counted"
    /\ writers'[w].pc = "idle"
    /\ writers'[w].result.success

\* every session is outside collect_history_for_stock
Quiescent == \A w \in Writers : writers[w].pc = "idle"

C13_CountEqualsRows ==
    Quiescent => history_records_count[TheStock] = RowCount(price_rows)

\* C13 fails without any collection: only crawl-history has run
C13_Witness ==
    /\ \A w \in Writers : writers[w] = IdleWriter
    /\ n_collect = 1
    /\ history_records_count[TheStock] # RowCount(price_rows)

\* C14: the rows a collection commits satisfy low <= min(open, close),
\* max(open, close) <= high, all prices >= 0 and (high - low) / low < 10; a
\* broker row that does not is left out.
C14_CollectedRowsAreSound ==
    [][\A w \in Writers :
          (writers[w].pc = "pending" /\ writers'[w].pc = "saved") =>
              \A d \in Days :
                  price_rows'[d] # price_rows[d] =>
                      \A i \in 1..Len(price_rows'[d]) :
                          LET q == price_rows'[d][i] IN
                          /\ q.open >= 0 /\ q.high >= 0
                          /\ q.low >= 0 /\ q.close >= 0
                          /\ q.low <= Min({q.open, q.close})
                          /\ Max({q.open, q.close}) <= q.high
                          /\ q.high - q.low < 10 * q.low]_vars

\* C14 fails: a collection reported success and its row with high < low is
\* stored
C14_Witness ==
    \E w \in Writers :
        /\ writers[w].result.success
        /\ writers[w].ohlcv = <<Row(Today, Qbad)>>
        /\ price_rows[Today] = <<Qbad>>

\* C15: no two PriceHistory rows of the stock have the same date, with two
\* sessions collecting it at the same time and with a broker answer that
\* holds a date twice.
C15_NoTwoRowsShareDate ==
    \A d \in Days : Len(price_rows[d]) <= 1

\* C15 happens: two sessions had the same new day pending, one committed it
\* and the commit of the other was refused
C15_Witness ==
    \E w \in Writers, v \in Writers :
        /\ w # v
        /\ writers[w].ohlcv = <<Row(Today - 2, Qb), Row(Today - 1, Qa)>>
        /\ writers[w].result.error = "IntegrityError"
        /\ writers[v].pc = "saved"
        /\ writers[v].new_rows >= 1
        /\ Len(price_rows[Today - 1]) = 1

C21_AdoptsCachedToken ==
    [][\A c \in ClientIds :
          (/\ LoadEntry(cache_file, clients[c].key, now) # NoEntry
           /\ \E o \in {"issued", "http_error"}, e \in SharedExpiresIn :
                 ApiCall(c, o, e))
          => /\ token_requests' = token_requests
             /\ clients'[c].access_token =
                    cache_file[clients[c].key].access_token]_vars

\* C21 fails: a client has just been issued a token although the file it
\* then read held, under its key, a good token of another process
C21_Witness ==
    \E c \in ClientIds :
        /\ clients[c].pc = "saving"
        /\ clients[c].access_token.by = c
        /\ LoadEntry(clients[c].cache_data, clients[c].key, now) # NoEntry
        /\ clients[c].cache_data[clients[c].key].access_token.by
               \in ClientIds \ {c}

\* C22: _save_token_cache writes the client's token and expiry under its key,
\* and a client built later starts with the entry of its key when more than 5
\* minutes of it remain, and without a token when 5 minutes or less remain or
\* the file has no entry for the key.
C22_TokenSurvivesRestart ==
    [][\A c \in ClientIds :
          /\ (clients[c].pc = "saving" /\ clients'[c].pc = "ready") =>
                /\ cache_file'[clients[c].key].access_token
                       = clients[c].access_token
                /\ cache_file'[clients[c].key].expired_at
                       = clients[c].token_expired_at
          /\ clients'[c].restarts # clients[c].restarts =>
                LET entry == cache_file[clients[c].key] IN
                IF entry.expired_at # NULL
                   /\ entry.expired_at - now > REFRESH_MARGIN
                THEN /\ clients'[c].access_token = entry.access_token
                     /\ clients'[c].token_expired_at = entry.expired_at
                ELSE /\ clients'[c].access_token = NoToken
                     /\ clients'[c].token_expired_at = NULL]_vars

\* C22 happens: a process started again and holds a token that a client
\* was issued and stored before
C22_Witness ==
    \E c \in ClientIds :
        /\ clients[c].restarts = 1
        /\ clients[c].pc = "ready"
        /\ clients[c].access_token.by \in ClientIds

\* C23: once no client is writing the cache file, the file holds, under the
\* key of every client that was issued a token and stored it, a token issued
\* to a client of that key.
C23_ConcurrentSavesKeepEveryKey ==
    (\A c \in ClientIds : clients[c].pc = "ready") =>
        \A c \in ClientIds :
            clients[c].access_token.by = c =>
                /\ cache_file[clients[c].key] # NoEntry
                /\ \E d \in ClientIds :
                      /\ clients[d].key = clients[c].key
                      /\ cache_file[clients[c].key].access_token.by = d

\* C23 fails: two clients with different keys both stored their token, no
\* process has started again, and the file has no entry for one of the keys
C23_Witness ==
    /\ \A c \in ClientIds :
          /\ clients[c].pc = "ready" /\ clients[c].restarts = 0
          /\ clients[c].access_token.by = c
    /\ \E c \in ClientIds, d \in ClientIds : clients[c].key # clients[d].key
    /\ \E c \in ClientIds : cache_file[clients[c].key] = NoEntry

\* C30: the last trading day is never a Saturday or a Sunday and never later
\* than today: on Saturday and on Sunday it is the Friday before; on a weekday
\* before hour 6 it is the previous trading day, the Friday before when today
\* is Monday; on a weekday from hour 6 on it is today.
C30_LastTradingDayIsAWeekday ==
    LET last == _get_last_trading_day(today, hour)
        weekday == today % 7
        friday_before == CHOOSE x \in (today - 6)..(today - 1) : x % 7 = 4
        previous_trading_day ==
            Max({x \in (today - 3)..(today - 1) : x % 7 \notin {5, 6}})
    IN  /\ last % 7 \notin {5, 6}
        /\ last <= today
        /\ weekday \in {5, 6} => last = friday_before
        /\ weekday \notin {5, 6} /\ hour < CLOSE_HOUR =>
              /\ last = previous_trading_day
              /\ weekday = 0 => last = friday_before
        /\ weekday \notin {5, 6} /\ hour >= CLOSE_HOUR => last = today

\* C30 happens: on a Monday before the close the oracle answered skip for a
\* stock whose newest row is of the Friday before
C30_Witness ==
    /\ oracle_out # NoAnswer
    /\ today % 7 = 0
    /\ hour < CLOSE_HOUR
    /\ oracle_out.answer.mode = "skip"
    /\ oracle_out.answer.last_date = today - 3
    /\ _get_last_trading_day(today, hour) = today - 3

\* C29: the exchange code of the US OHLCV query is NAS for NASDAQ, NYS for
\* NYSE, AMS for AMEX and NAS for every other exchange value of the stock, a
\* missing one (None) included; computing it never fails.
C29_ExchangeCodeIsTotal ==
    [][\A x \in Exchanges :
          (\E o \in IssueOutcomes, e \in ExpiresIn, a \in Answers :
              collect_us_stock_history(o, e, a, x))
          => /\ unit_result'.error # "AttributeError"
             /\ (sent' # sent =>
                   sent'.excd = CASE upper(x) = "NASDAQ" -> "NAS"
                                  [] upper(x) = "NYSE" -> "NYS"
                                  [] upper(x) = "AMEX" -> "AMS"
                                  [] OTHER -> "NAS")]_vars

\* C29 happens: a collection of a stock without exchange has ended on the
\* exception of the mapping
C29_Witness ==
    /\ ~unit_result.success
    /\ unit_result.error = "AttributeError"
    /\ _get_us_exchange_code("None") = "AttributeError"

\* no session is inside an analysis of the stock
NoAnalysis == \A r \in Analysts : analysts[r].pc = "idle"

\* C24: no two Signal rows share (stock_id, signal_date, strategy_name),
\* whatever trendline and MA analyses run on the stock, two of them at the
\* same time included.
C24_NoTwoSignalsShareKey ==
    \A x, y \in signals : Key(x) = Key(y) => x = y

\* C24 happens: of two trendline analyses that ran at the same time one has
\* saved its signals and the other one's INSERT was rejected
C24_Witness ==
    /\ n_analyses = 2
    /\ \E r, q \in Analysts : /\ analysts[r].outcome = "IntegrityError"
                              /\ analysts[q].outcome = "saved"
    /\ StockSignals # {}
    /\ \A x \in StockSignals : x.strategy_name \in TRENDLINE_STRATEGIES
    /\ \A i \in 1..Len(bars) : CrossedUp(bars[i]) = {}

\* C25: saving an emitted signal whose key has a row changes current_price,
\* return_percent and updated_at of that row, leaves its other columns and
\* creates no row; saving one whose key has no row inserts exactly one row.
C25_SaveUpdatesOrInsertsOne ==
    \A kind \in {"signal", "ma"}, p \in Prices :
       LET emitted == _run_signal_analysis(kind, PriceHistory(today), p)
           stamp == n_analyses + 1
           after == _save_signals(signals, emitted, stamp)
       IN  \A i \in 1..Len(emitted) :
              LET e == emitted[i]
                  old == {x \in signals : Key(x) = Key(e)}
                  new == {x \in after : Key(x) = Key(e)}
              IN  IF old # {}
                  THEN new = {[x EXCEPT !.current_price = e.current_price,
                                        !.return_percent = e.return_percent,
                                        !.updated_at = stamp] : x \in old}
                  ELSE Cardinality(new) = 1

\* C25 happens: the only analysis that ever ran on the stock, an MA analysis
\* of a close that crossed two averages on one day, ended on the rejected
\* INSERT and no signal is stored
C25_Witness ==
    /\ n_analyses = 1
    /\ \E r \in Analysts : analysts[r].outcome = "IntegrityError"
    /\ StockSignals = {}
    /\ \E i \in 1..Len(bars) : Cardinality(CrossedUp(bars[i])) = 2

\* C26: a delta run selects the eligible stock when its signal_analyzed_at is
\* null (or older than its history_updated_at), and the analysis of a stock
\* sets its signal_analyzed_at to the time of the run.
C26_DeltaRunFollowsTimestamps ==
    /\ [][\A r \in Analysts, kind \in {"signal", "ma"}, p \in Prices :
            AnalyzeBegin(r, kind, FALSE, p) /\ signal_analyzed_at[TheStock] = NULL
            => analysts'[r].pc = "begun"]_vars
    /\ [][\A r \in Analysts :
            AnalyzeSignals(r, FALSE)
            => signal_analyzed_at'[TheStock] = analysts[r].stamp]_vars

\* C26 happens: a delta run has ended on the AttributeError of its filter and
\* a full run before it left signal_analyzed_at null
C26_Witness ==
    /\ \E r \in Analysts : analysts[r].outcome = "AttributeError"
    /\ \E r \in Analysts : analysts[r].outcome \in {"saved", "no_signals"}
    /\ signal_analyzed_at[TheStock] = NULL

\* what C27 compares of the Signal rows
SignalSet(table) ==
    {[key |-> Key(x), signal_type |-> x.signal_type,
      signal_price |-> x.signal_price, details |-> x.details] : x \in table}

\* C27: of two consecutive analysis runs of the stock with no collection in
\* between, delta or full, the second leaves the Signal rows as the first
\* left them (keys, signal_type, signal_price, details).
C27_SecondRunChangesNothing ==
    NoAnalysis =>
       \A kind \in {"signal", "ma"}, full1, full2 \in BOOLEAN, p1, p2 \in Prices,
          t2 \in {today, today + 1} :
          LET first == RunAlone(signals, kind, full1, today, p1, n_analyses + 1)
              second == RunAlone(first, kind, full2, t2, p2, n_analyses + 2)
          IN  SignalSet(second) = SignalSet(first)

\* C27 happens: two trendline analyses ran one after the other and the rows
\* stored are those of the second
C27_Witness ==
    /\ NoAnalysis
    /\ n_analyses = 2
    /\ \A r \in Analysts : analysts[r].outcome = "saved"
    /\ StockSignals # {}
    /\ \A x \in StockSignals : /\ x.strategy_name \in TRENDLINE_STRATEGIES
                               /\ x.analyzed_at = 2
                          /\ x.updated_at = 2
    /\ SignalSet(signals) =
          SignalSet(RunAlone(signals, "signal", TRUE, today, 10, 3))

\* C28: a re-analysis of the stock resolves every approaching_breakout signal
\* of the last 10 days whose breakout_confirmed is null: true with the date
\* of the bar when one of the next three bars has its high above the
\* trendline, false otherwise; the signal is stored with these details after
\* the re-analysis.
C28_ApproachingSignalsAreResolved ==
    NoAnalysis =>
       \A p \in Prices :
          LET price_history == PriceHistory(today)
              after == RunAlone(signals, "signal", TRUE, today, p, n_analyses + 1)
          IN  \A x \in StockSignals :
                 (/\ x.strategy_name = "approaching_breakout"
                  /\ x.signal_date >= today - CONFIRM_DAYS
                  /\ x.details.breakout_confirmed = "None"
                  /\ \E i \in 1..Len(price_history) :
                         price_history[i].date = x.signal_date)
                 => \E y \in after :
                       /\ Key(y) = Key(x)
                       /\ y.details = ResolvedDetails(x, price_history)

\* C28 happens: the stock was analysed again after a bar broke the trendline,
\* and the approaching signal of the day before is stored unresolved
C28_Witness ==
    /\ NoAnalysis
    /\ n_analyses = 2
    /\ \E x \in StockSignals :
          /\ x.strategy_name = "approaching_breakout"
          /\ x.analyzed_at = 2
          /\ x.details.breakout_confirmed = "None"
          /\ \E i \in 1..Len(bars) : /\ bars[i].date = x.signal_date + 1
                                     /\ HighAbove(bars[i])

\* the rows a run of the analyzer `kind` on the stock has no business with:
\* the rows of other stocks and the rows of the other family's strategies
Outside(table, kind) ==
    {x \in table : \/ x.stock_id # TheStock
                   \/ x.strategy_name \notin Strategies(kind)}

\* C33: a step of a trendline analysis of the stock deletes, changes and
\* inserts only rows of the stock whose strategy_name is one of the three
\* trendline strategies, and a step of an MA analysis only rows of the eight
\* MA strategy names: the rows of the other family and of other stocks stay
\* as they are.
C33_AnalysisTouchesOnlyItsStrategies ==
    [][\A r \in Analysts :
          analysts'[r] # analysts[r] =>
             LET kind == IF analysts[r].pc = "idle" THEN analysts'[r].kind
                         ELSE analysts[r].kind
             IN  Outside(signals', kind) = Outside(signals, kind)]_vars

\* C33 happens: an MA analysis and then a trendline analysis of the stock
\* have saved their signals, the rows of both families are stored next to
\* the rows of the other stock
C33_Witness ==
    /\ NoAnalysis
    /\ \E x \in StockSignals : /\ x.strategy_name \in STRATEGY_NAMES
                               /\ x.analyzed_at = 1
    /\ \E x \in StockSignals : /\ x.strategy_name \in TRENDLINE_STRATEGIES
                               /\ x.analyzed_at = 2
    /\ OtherSignals \subseteq signals

\* C36: after a collection has set history_updated_at of the stock, a delta
\* run of the trendline analyzer and a delta run of the MA analyzer both
\* select the stock, whichever runs first.
C36_BothFamiliesSelectAfterCollection ==
    (/\ NoAnalysis
     /\ history_updated_at # NULL
     /\ \/ signal_analyzed_at[TheStock] = NULL
        \/ history_updated_at > signal_analyzed_at[TheStock])
    => \A first, second \in {"signal", "ma"} :
          first # second =>
             /\ ~_get_stock_ids_by_mode(first, FALSE).raised
             /\ TheStock \in _get_stock_ids_by_mode(first, FALSE).stock_ids
             /\ ~_get_stock_ids_by_mode(second, FALSE).raised
             /\ TheStock \in _get_stock_ids_by_mode(second, FALSE).stock_ids

\* C36 happens: the collection of today has set history_updated_at and the
\* two delta runs, one of each family, have ended on the AttributeError
C36_Witness ==
    /\ history_updated_at = today
    /\ bars[Len(bars)].date = today
    /\ n_analyses = 2
    /\ \A r \in Analysts : analysts[r].outcome = "AttributeError"
    /\ StockSignals = {}

\* C37: when a collection stores a row of the stock while an analysis of the
\* stock is in progress, the row is not lost to analysis: the running
\* analysis computes its signals from it, or the next delta run selects the
\* stock.
C37_RowsCollectedDuringAnalysisAreAnalysed ==
    [][\A r \in Analysts :
          (/\ AnalyzeSignals(r, FALSE)
           /\ \E i \in 1..Len(bars) :
                 \A j \in 1..Len(analysts[r].price_history) :
                    analysts[r].price_history[j] # bars[i])
          => \A kind \in {"signal", "ma"} :
                TheStock \in _get_stock_ids_by_mode(kind, FALSE).stock_ids]_vars

\* C37 happens: a trendline analysis is saving signals that it computed from
\* the rows it read before the collection of today stored a breakout row
C37_Witness ==
    /\ history_updated_at = today
    /\ bars[Len(bars)].kind = "breakout"
    /\ bars[Len(bars)].date = today
    /\ \E r \in Analysts :
          /\ analysts[r].pc = "saving"
          /\ analysts[r].kind = "signal"
          /\ \A i \in 1..Len(analysts[r].emitted) :
                analysts[r].emitted[i].signal_date # today

\* C38: the save of the signals one analysis emitted never holds two INSERTs
\* of one (stock_id, signal_date, strategy_name), also when the analysis
\* emitted several signals with one key, and its commit succeeds.
C38_SaveInsertsEachKeyOnce ==
    \A r \in Analysts :
       /\ analysts[r].pc = "flushing" =>
             \A i, j \in 1..Len(analysts[r].adds) :
                Key(analysts[r].adds[i]) = Key(analysts[r].adds[j]) => i = j
       /\ (n_analyses = 1 /\ analysts[r].pc = "idle") =>
             analysts[r].outcome \notin {"IntegrityError", "StaleDataError"}

\* C38 happens: the session of an MA analysis holds two INSERTs of
\* ma_breakout_up for one row that crossed two averages
C38_Witness ==
    \E r \in Analysts :
       /\ analysts[r].pc = "flushing"
       /\ analysts[r].kind = "ma"
       /\ Len(analysts[r].adds) = 2
       /\ Key(analysts[r].adds[1]) = Key(analysts[r].adds[2])
       /\ analysts[r].adds[1].details.ma_period = 20
       /\ analysts[r].adds[2].details.ma_period = 50

\* C39: when the computation or the save of the signals of the stock fails
\* during a run, the Signal rows the stock had before the run are left as
\* they were.
C39_FailedAnalysisKeepsSignals ==
    NoAnalysis =>
       \A kind \in {"signal", "ma"}, p \in Prices :
          LET stamp == n_analyses + 1
              price_history == PriceHistory(today)
              deleted == DeleteSignals(signals, kind)
              checked == IF kind = "ma" THEN deleted
                         ELSE _check_breakout_confirmation(
                                  deleted, price_history, today, stamp)
              emitted == _run_signal_analysis(kind, price_history, p)
          IN  \* the computation raised: the run ends after step 4
              /\ SignalSet(checked) = SignalSet(signals)
              \* the commit of the save raised
              /\ ~unique_stock_signal(checked, SignalsToAdd(checked, emitted))
                 => SignalSet(RunAlone(signals, kind, TRUE, today, p, stamp))
                    = SignalSet(signals)

\* C39 happens: the second analysis of the stock, one whose computation
\* raised, has ended like an analysis without signals, and the rows the
\* first analysis stored are gone
C39_Witness ==
    /\ NoAnalysis
    /\ n_analyses = 2
    /\ \E r, q \in Analysts : /\ analysts[r].outcome = "saved"
                              /\ analysts[q].outcome = "no_signals"
    /\ StockSignals = {}
    /\ \A i \in 1..Len(bars) : bars[i].date >= today - AnalysisDays
    /\ \E i \in 1..Len(bars) : bars[i].kind # "quiet"

\* C34: in a collection job every stock of the universe is counted once,
\* whatever fails inside the units: a unit raises processed by one and one of
\* success and failed by one, and the Task the driver finalized has
\* success_count + failed_count = total_items.
C34_EachStockIsCountedOnce ==
    /\ [][\A t \in TaskIds :
            (/\ jobs[t] # NoJob
             /\ jobs[t].kind \in {"collect", "retry"}
             /\ jobs[t].pc \in {"loop", "collect"}
             /\ jobs'[t].pc = "loop"
             /\ jobs'[t].i = jobs[t].i + 1)
            => /\ jobs'[t].counters.processed = jobs[t].counters.processed + 1
               /\ jobs'[t].counters.success + jobs'[t].counters.failed
                     = jobs[t].counters.success + jobs[t].counters.failed + 1]_vars
    /\ [](\A t \in TaskIds :
            (/\ tasks[t] # NoRow
             /\ tasks[t].task_type = "history_collection"
             /\ tasks[t].status = "completed")
            => tasks[t].success_count + tasks[t].failed_count
                  = tasks[t].total_items)

\* C34 happens: the rows of the only stock of a job were saved and counted as
\* a success, the commit of the unit raised, and the completed Task counts
\* one success and one failure for one stock
C34_Witness ==
    \E t \in TaskIds :
        /\ tasks[t] # NoRow /\ tasks[t].status = "completed"
        /\ tasks[t].task_type = "history_collection"
        /\ tasks[t].total_items = 1
        /\ tasks[t].success_count = 1 /\ tasks[t].failed_count = 1

\* C35: once a collection Task is completed, failed or cancelled and its job
\* runs no more, no CollectionLog row written under its task_id has status
\* running.
C35_TerminalTaskHasNoRunningLog ==
    \A t \in TaskIds :
        (/\ tasks[t] # NoRow
         /\ tasks[t].task_type = "history_collection"
         /\ tasks[t].status \in Terminal
         /\ Stopped(t))
        => \A s \in Stocks : /\ logs[<<t, s>>] # NoLog
                             => logs[<<t, s>>].status # "running"

\* C35 happens: a collection was cancelled while a unit was collecting, the
\* worker was terminated and the unit's log row is left running under the
\* cancelled Task
C35_Witness ==
    \E t \in TaskIds :
        /\ tasks[t] # NoRow /\ tasks[t].status = "cancelled"
        /\ jobs[t] # NoJob /\ jobs[t].pc = "killed"
        /\ \E s \in Stocks : /\ logs[<<t, s>>] # NoLog
                             /\ logs[<<t, s>>].status = "running"

\* the sets of positions of strictly decreasing subsequences of swing highs
DecreasingSubsequences(swing_highs) ==
    {S \in SUBSET (1..Len(swing_highs)) :
        \A i, j \in S : i < j => swing_highs[i][2] > swing_highs[j][2]}

\* C31: find_lower_highs returns a longest subsequence of the swing highs, in
\* index order, whose prices are strictly decreasing: no strictly decreasing
\* subsequence is longer; when that length is below 3 it returns nothing and
\* no bar is marked.
C31_LowerHighsAreALongestDecreasingRun ==
    LET swing_highs == find_swing_highs_lows(df, SWING_WINDOW)
        longest == Max({Cardinality(S) : S \in DecreasingSubsequences(swing_highs)})
    IN  /\ lower_highs.called =>
              IF longest < MIN_TOUCHES THEN lower_highs.returned = <<>>
              ELSE /\ Len(lower_highs.returned) = longest
                   /\ \E S \in DecreasingSubsequences(swing_highs) :
                         lower_highs.returned
                            = SelectSeq(swing_highs,
                                  LAMBDA pt : \E i \in S : swing_highs[i] = pt)
        /\ (buy_signals # <<>> /\ longest < MIN_TOUCHES) =>
              \A k \in 1..Len(buy_signals) : buy_signals[k] = 0

\* C31 happens: of the swing highs 4, 1, 3, 2 the three lower highs 4, 3, 2
\* are missed, and no bar is marked although the last close is above every
\* line through them
C31_Witness ==
    /\ lower_highs.called
    /\ lower_highs.returned = <<>>
    /\ buy_signals # <<>>
    /\ \A k \in 1..Len(buy_signals) : buy_signals[k] = 0
    /\ \E S \in DecreasingSubsequences(find_swing_highs_lows(df, SWING_WINDOW)) :
          Cardinality(S) = MIN_TOUCHES
    /\ df[Len(df) - 1].close = 0
    /\ df[Len(df)].close = MaxClose

\* C32: bar i is marked exactly when there is a descending trendline (at
\* least 3 lower highs, fitted slope < 0), i lies beyond the last lower high,
\* close[i-1] <= tl(i-1) and close[i] > tl(i); no two consecutive bars are
\* both marked; without such a trendline no bar is marked.
C32_BreakoutBarsAreMarked ==
    buy_signals # <<>> =>
       LET found == find_lower_highs(find_swing_highs_lows(df, SWING_WINDOW),
                                     MIN_TOUCHES)
           tl == calculate_trendline(found)
           descending == Len(found) >= MIN_TOUCHES /\ tl.slope < 0
       IN  /\ \A i \in 0..(Len(df) - 1) :
                 buy_signals[i + 1] = 1 <=>
                    /\ descending
                    /\ i > found[Len(found)][1]
                    /\ iloc(df, i - 1).close * tl.q <= TrendlineValue(tl, i - 1)
                    /\ iloc(df, i).close * tl.q > TrendlineValue(tl, i)
           /\ \A i \in 1..(Len(df) - 1) :
                 ~(buy_signals[i] = 1 /\ buy_signals[i + 1] = 1)
           /\ ~descending => \A k \in 1..Len(df) : buy_signals[k] = 0

\* C32 happens: a bar is marked, and the bar after it, whose close is above
\* the line as well, is not
C32_Witness ==
    /\ buy_signals # <<>>
    /\ \E k \in 1..(Len(df) - 1) :
          /\ buy_signals[k] = 1
          /\ buy_signals[k + 1] = 0
          /\ LET tl == calculate_trendline(
                           find_lower_highs(
                               find_swing_highs_lows(df, SWING_WINDOW),
                               MIN_TOUCHES))
             IN  df[k + 1].close * tl.q > TrendlineValue(tl, k)

====
